---------------------------- MODULE Spec2Model ----------------------------
(***************************************************************************)
(* A model of yield-pilot: the protocol-data orchestrator                  *)
(* (src/src/protocols/index.js, getProtocolData), the route and yield      *)
(* calculation (src/src/analyzer/strategyBuilder.js and calculateYield in  *)
(* src/src/projections/index.js) and the Redis cache service               *)
(* (CacheService in src/src/projections/index.js).                         *)
(*                                                                         *)
(* Numbers.  Rates are held in hundredths of a percent (3.8% is 380), fees *)
(* in hundredths (0.15 is 15), gas prices in Gwei, the per-operation gas   *)
(* costs of the snapshot in units of 10^-5 ETH.  JavaScript's null and     *)
(* undefined are the two values NULL and UNDEF below.                      *)
(***************************************************************************)
EXTENDS Integers, Sequences, FiniteSets, TLC

VARIABLES
    \* ---- getProtocolData (one orchestration pass) ----
    pc,                  \* position of the async function getProtocolData
    world,               \* what every provider answers during this pass
    plug,                \* state of the three plugin promises
    lidoData,            \* let lidoData            (line 124)
    aaveData,            \* let aaveData            (line 125)
    renzoDataFromPlugin, \* let renzoDataFromPlugin (line 126)
    missingData,         \* const missingData = {}  (line 120), as its key set
    llama,               \* the four results of Promise.allSettled (193-212)
    gasFetch,            \* blocknativeGasData / etherscanGasData (215-239)
    locals,              \* the values computed by lines 241-411
    llamaLookup,         \* protocols whose rate was looked up in the pools
    result,              \* the object getProtocolData resolved with
    \* ---- strategyBuilder / calculateYield ----
    spc,                 \* position of the strategy computation
    sin,                 \* its inputs: user input and snapshot
    built,               \* the object strategyBuilder returned
    final,               \* the object calculateYield returned
    \* ---- CacheService and the Redis server behind it ----
    cacheEnabled,        \* this.cacheEnabled
    client,              \* this.client: 0 is null, 1 a client
    isConnected,         \* this.isConnected
    conn,                \* state of the connection of the client held
    stale,               \* states of the connections of earlier clients
    store,               \* the server's keys: key -> [data, exp]
    now,                 \* the server's clock
    written,             \* per key: what the last successful set stored
    lastOp,              \* the cache operation that just returned
    \* ---- DefiLlamaService ----
    fetch,               \* the fetch of the service in progress or returned
    \* ---- the Aave plugin's getProtocolData ----
    apc,                 \* position of the async function
    aenv,                \* what The Graph and DefiLlama answer to this call
    acalls,              \* the requests sent so far, in order
    aresult              \* how the returned promise settled

ovars == <<pc, world, plug, lidoData, aaveData, renzoDataFromPlugin,
           missingData, llama, gasFetch, locals, llamaLookup, result>>
svars == <<spc, sin, built, final>>
cvars == <<cacheEnabled, client, isConnected, conn, stale, store, now,
           written, lastOp>>
lvars == <<fetch>>
pvars == <<apc, aenv, acalls, aresult>>
vars  == <<ovars, svars, cvars, lvars, pvars>>

-----------------------------------------------------------------------------
(* JavaScript values *)

NULL  == -1     \* null
UNDEF == -2     \* undefined (a missing property)

\* if (v), v || d, !v  for a number, null or undefined
Truthy(v) == v # NULL /\ v # UNDEF /\ v # 0

\* a || b
Or(a, b) == IF Truthy(a) THEN a ELSE b

\* safeGet(obj, path, null): undefined and null both become null
safeGet(v) == IF v = UNDEF \/ v = NULL THEN NULL ELSE v


-----------------------------------------------------------------------------
(* Rate tables: an object keyed by asset symbol; UNDEF is a missing key *)

Symbols == {"stETH", "USDC", "ETH"}

NoRates == [s \in Symbols |-> UNDEF]

\* Object.keys(table).length
KeyCount(table) == Cardinality({s \in Symbols : table[s] # UNDEF})

-----------------------------------------------------------------------------
(* The Lido plugin: it rejects (no API key, transport error) or resolves   *)
(* with apr = data.totalRewards?.[0]?.apr || null                          *)

LidoPlugin(graphOk, apr, staked) ==
    IF graphOk
    THEN [ok |-> TRUE, apr |-> Or(apr, NULL), totalStaked |-> Or(staked, NULL)]
    ELSE [ok |-> FALSE, apr |-> UNDEF, totalStaked |-> UNDEF]

(* The Aave plugin: The Graph, then DefiLlama, then the built-in mock      *)

AaveMockSupply == [s \in Symbols |->
    IF s = "ETH" THEN 250 ELSE IF s = "stETH" THEN 320 ELSE 410]
AaveMockBorrow == [s \in Symbols |->
    IF s = "ETH" THEN 320 ELSE IF s = "stETH" THEN 0 ELSE 480]

\* pool.apyBase || null for the pools DefiLlama lists, per symbol
AaveLlamaRates(table) ==
    [s \in Symbols |-> IF table[s] = UNDEF THEN UNDEF ELSE Or(table[s], NULL)]

AavePlugin(graph, pools) ==
    IF graph.ok
    THEN [supplyRates |-> graph.supply, borrowRates |-> graph.borrow,
          source |-> "thegraph-aave-v3"]
    ELSE IF pools.ok
    THEN [supplyRates |-> AaveLlamaRates(pools.supply),
          borrowRates |-> AaveLlamaRates(pools.borrow),
          source |-> "defillama-api-fallback"]
    ELSE [supplyRates |-> AaveMockSupply, borrowRates |-> AaveMockBorrow,
          source |-> "mock-data-fallback"]

(* The Renzo plugin: TVL from The Graph, APY from DefiLlama.  graphTvl is  *)
(* NULL when the subgraph call failed or listed no snapshot and no pool;   *)
(* pool is the ezETH pool DefiLlama lists (found = FALSE: none, or the     *)
(* call failed).                                                           *)

RenzoPlugin(graphTvl, pool) ==
    LET tvl0 == graphTvl
        src0 == IF tvl0 # NULL THEN "thegraph-renzo" ELSE "no-data"
        apr  == IF pool.found THEN Or(Or(pool.apyBase, pool.apy), NULL) ELSE NULL
        tvl1 == IF apr # NULL /\ tvl0 = NULL /\ Truthy(pool.tvlUsd)
                THEN pool.tvlUsd ELSE tvl0
        src1 == IF apr = NULL THEN src0
                ELSE IF tvl0 = NULL /\ Truthy(pool.tvlUsd)
                     THEN "defillama-api-fallback"
                ELSE IF src0 = "thegraph-renzo"
                     THEN "thegraph-tvl-defillama-apy"
                ELSE IF tvl0 # NULL THEN src0
                ELSE "defillama-api-fallback"
    IN  [tvl |-> tvl1, apyBoost |-> apr,
         source |-> IF tvl1 = NULL /\ apr = NULL THEN "no-data" ELSE src1]

-----------------------------------------------------------------------------
(* What the providers answer during one pass.  Each field is drawn from a  *)
(* small sample of the answers the provider can give.                      *)

\* the payload of defillama.yields.pools(): per protocol the apyBase of the
\* pool the orchestrator searches for (NULL: no such pool, or no apyBase)
AavePoolsNone == [supply |-> NoRates, borrow |-> NoRates]
AavePoolsSome ==
    [supply |-> [s \in Symbols |-> IF s = "ETH" THEN UNDEF
                                   ELSE IF s = "stETH" THEN 20 ELSE 410],
     borrow |-> [s \in Symbols |-> IF s = "ETH" THEN UNDEF
                                   ELSE IF s = "stETH" THEN NULL ELSE 480]]

PoolLists ==
    [kind : {"pools"}, lido : {NULL, 380}, eigen : {NULL}, renzo : {NULL, 320},
     kelp : {NULL, 290}, aave : {AavePoolsNone, AavePoolsSome}]
    \cup
    [kind : {"pools"}, lido : {380}, eigen : {200}, renzo : {NULL},
     kelp : {290}, aave : {AavePoolsNone}]

NoPoolList == [kind |-> "rejected", lido |-> NULL, eigen |-> NULL,
               renzo |-> NULL, kelp |-> NULL, aave |-> AavePoolsNone]

\* "rejected": the call failed; "nodata": fulfilled, the payload has no data
\* field; "notarray": fulfilled, data is not a list of pools
YieldPoolsAnswers ==
    PoolLists \cup {[NoPoolList EXCEPT !.kind = k] :
                       k \in {"rejected", "nodata", "notarray"}}

\* Blocknative: "throw" (transport error, body that is not JSON), "errbody"
\* (a JSON body without blockPrices, as a non-2xx status returns), "noavg"
\* (block prices without a confidence-80 price), "noprices" (a block entry
\* without estimatedPrices), "ok"
BlocknativeAnswers == {"throw", "errbody", "noavg", "noprices", "ok"}

\* Etherscan: "throw", "noresult" (a JSON body without result), "errresult"
\* (result is an error text, as an invalid API key returns), "ok"
EtherscanAnswers == {"throw", "noresult", "errresult", "ok"}

\* the two gas providers together; where Blocknative answers with block
\* prices the Etherscan answer is sampled once
GasAnswers ==
    {[bn |-> b, es |-> e] : b \in {"throw", "errbody"}, e \in EtherscanAnswers}
    \cup {[bn |-> b, es |-> "ok"] : b \in BlocknativeAnswers}

LidoAnswers ==
    {LidoPlugin(FALSE, UNDEF, UNDEF), LidoPlugin(TRUE, UNDEF, 13),
     LidoPlugin(TRUE, 380, 13)}

AaveGraphRates ==
    [ok |-> TRUE,
     supply |-> [s \in Symbols |-> IF s = "stETH" THEN UNDEF ELSE 250],
     borrow |-> [s \in Symbols |-> IF s = "stETH" THEN UNDEF ELSE 280]]
AaveGraphEmpty == [ok |-> TRUE, supply |-> NoRates, borrow |-> NoRates]
AaveGraphFail  == [ok |-> FALSE, supply |-> NoRates, borrow |-> NoRates]

AaveAnswers ==
    {AavePlugin(AaveGraphRates, [ok |-> FALSE] @@ AavePoolsNone),
     AavePlugin(AaveGraphEmpty, [ok |-> FALSE] @@ AavePoolsNone),
     AavePlugin(AaveGraphFail, [ok |-> TRUE] @@ AavePoolsSome),
     AavePlugin(AaveGraphFail, [ok |-> FALSE] @@ AavePoolsNone)}

RenzoAnswers ==
    {RenzoPlugin(t, p) :
        t \in {NULL, 48},
        p \in {[found |-> FALSE, apyBase |-> UNDEF, apy |-> UNDEF, tvlUsd |-> UNDEF],
               [found |-> TRUE, apyBase |-> 320, apy |-> 330, tvlUsd |-> 48]}}

\* protocolTvls, ethPriceData, yearnDefiLlamaData: fulfilled or rejected
ScalarAnswers ==
    {[tvls |-> TRUE, ethPrice |-> TRUE, yearn |-> TRUE],
     [tvls |-> FALSE, ethPrice |-> TRUE, yearn |-> TRUE],
     [tvls |-> TRUE, ethPrice |-> FALSE, yearn |-> FALSE]}

Worlds ==
    [lido : LidoAnswers, aave : AaveAnswers, renzo : RenzoAnswers,
     scalars : ScalarAnswers, pools : YieldPoolsAnswers, gas : GasAnswers]

NoWorld ==
    [lido |-> LidoPlugin(FALSE, UNDEF, UNDEF),
     aave |-> AavePlugin(AaveGraphFail, [ok |-> FALSE] @@ AavePoolsNone),
     renzo |-> RenzoPlugin(NULL, [found |-> FALSE, apyBase |-> UNDEF,
                                  apy |-> UNDEF, tvlUsd |-> UNDEF]),
     scalars |-> [tvls |-> FALSE, ethPrice |-> FALSE, yearn |-> FALSE],
     pools |-> NoPoolList,
     gas |-> [bn |-> "throw", es |-> "throw"]]

-----------------------------------------------------------------------------
(* getProtocolData: state at the call *)

Plugins == {"lido", "aave", "renzo"}

Unset == [set |-> FALSE, apyBoost |-> UNDEF, stETHAPR |-> UNDEF, tvl |-> UNDEF,
          supplyRates |-> NoRates, borrowRates |-> NoRates, source |-> "undefined"]

NoGas == [slow |-> NULL, average |-> NULL, fast |-> NULL]
NoEstimation == [stake |-> NULL, swap |-> NULL, supply |-> NULL, borrow |-> NULL]

NoLocals ==
    [lidoStEthApr |-> NULL, aaveSupplyRates |-> NoRates,
     aaveBorrowRates |-> NoRates, eigenLayerBaseApr |-> NULL,
     renzoApyBoostDefillama |-> NULL, kelpApyBoost |-> NULL,
     tvl |-> NULL, yearnTvl |-> NULL, ethPrice |-> NULL,
     gasCurrent |-> NoGas, gasEstimation |-> NoEstimation]

NotFetched == [status |-> "rejected", value |-> "Not fetched"]

NoResult == [kind |-> "none"]

OrchInit ==
    /\ pc = "idle"
    /\ world = NoWorld
    /\ plug = [p \in Plugins |-> "idle"]
    /\ lidoData = Unset
    /\ aaveData = Unset
    /\ renzoDataFromPlugin = Unset
    /\ missingData = {}
    /\ llama = [settled |-> FALSE]
    /\ gasFetch = [bn |-> NotFetched, es |-> NotFetched]
    /\ locals = NoLocals
    /\ llamaLookup = {}
    /\ result = NoResult

-----------------------------------------------------------------------------
(* Lines 118-212: the call starts the three plugin fetches and the four    *)
(* DefiLlama fetches and suspends on Promise.allSettled                    *)

Start ==
    /\ pc = "idle"
    /\ world' \in Worlds
    /\ plug' = [p \in Plugins |-> "pending"]
    /\ pc' = "awaitLlama"
    /\ UNCHANGED <<lidoData, aaveData, renzoDataFromPlugin, missingData, llama,
                   gasFetch, locals, llamaLookup, result>>
    /\ UNCHANGED <<svars, cvars, lvars, pvars>>

(* Lines 136-150: the Lido plugin promise settles and its callback runs *)
LidoSettled ==
    /\ plug["lido"] = "pending"
    /\ IF world.lido.ok
       THEN /\ lidoData' = [Unset EXCEPT !.set = TRUE,
                                          !.stETHAPR = world.lido.apr,
                                          !.tvl = world.lido.totalStaked]
            /\ plug' = [plug EXCEPT !["lido"] = "fulfilled"]
            /\ UNCHANGED missingData
       ELSE /\ missingData' = missingData \cup {"lidoPlugin"}
            /\ plug' = [plug EXCEPT !["lido"] = "rejected"]
            /\ UNCHANGED lidoData
    /\ UNCHANGED <<pc, world, aaveData, renzoDataFromPlugin, llama, gasFetch,
                   locals, llamaLookup, result>>
    /\ UNCHANGED <<svars, cvars, lvars, pvars>>

(* Lines 153-173: the Aave plugin promise settles (the plugin catches      *)
(* every failure of its own and resolves with mock data at worst)          *)
AaveSettled ==
    /\ plug["aave"] = "pending"
    /\ aaveData' = [Unset EXCEPT !.set = TRUE,
                                  !.supplyRates = world.aave.supplyRates,
                                  !.borrowRates = world.aave.borrowRates,
                                  !.source = world.aave.source]
    /\ plug' = [plug EXCEPT !["aave"] = "fulfilled"]
    /\ UNCHANGED <<pc, world, lidoData, renzoDataFromPlugin, missingData, llama,
                   gasFetch, locals, llamaLookup, result>>
    /\ UNCHANGED <<svars, cvars, lvars, pvars>>

(* Lines 176-190: the Renzo plugin promise settles (it never rejects) *)
RenzoSettled ==
    /\ plug["renzo"] = "pending"
    /\ renzoDataFromPlugin' = [Unset EXCEPT !.set = TRUE,
                                             !.apyBoost = world.renzo.apyBoost,
                                             !.tvl = world.renzo.tvl,
                                             !.source = world.renzo.source]
    /\ plug' = [plug EXCEPT !["renzo"] = "fulfilled"]
    /\ UNCHANGED <<pc, world, lidoData, aaveData, missingData, llama, gasFetch,
                   locals, llamaLookup, result>>
    /\ UNCHANGED <<svars, cvars, lvars, pvars>>

(* Lines 193-223: Promise.allSettled of the DefiLlama fetches resolves and *)
(* the Blocknative request is sent                                         *)
LlamaSettled ==
    /\ pc = "awaitLlama"
    /\ llama' = [settled |-> TRUE]
    /\ pc' = "awaitBlocknative"
    /\ UNCHANGED <<world, plug, lidoData, aaveData, renzoDataFromPlugin,
                   missingData, gasFetch, locals, llamaLookup, result>>
    /\ UNCHANGED <<svars, cvars, lvars, pvars>>

-----------------------------------------------------------------------------
(* Lines 241-372: TVLs, ETH price and the yield pools *)

\* yieldPoolsData.status === 'fulfilled' && yieldPoolsData.value?.data
PoolsHaveData == world.pools.kind \in {"pools", "notarray"}

\* pools.filter / pools.find on a data field that is not an array throws
PoolsThrow == world.pools.kind = "notarray"

\* missingData[`aaveSupply_${internalSymbol}`]
AaveSupplyKey(s) == "aaveSupply_" \o s
AaveBorrowKey(s) == "aaveBorrow_" \o s

\* data?.source is a non-empty text
HasSource(d) == d.set /\ d.source # "undefined"

\* lines 300-372, given the plugin data present when they run: the looked-up
\* rates, the keys added to missingData and the protocols looked up
PoolStep(ld, ad, rd) ==
    LET P == world.pools
        lidoLook  == ~ld.set
        aaveLook  == ~ad.set
        renzoLook == ~rd.set \/ rd.apyBoost = NULL
        lidoApr   == IF lidoLook THEN safeGet(P.lido) ELSE NULL
        supply    == IF aaveLook
                     THEN [s \in Symbols |->
                             IF P.aave.supply[s] = UNDEF THEN UNDEF
                             ELSE safeGet(P.aave.supply[s])]
                     ELSE NoRates
        borrow    == IF aaveLook
                     THEN [s \in Symbols |->
                             IF P.aave.supply[s] = UNDEF THEN UNDEF
                             ELSE safeGet(P.aave.borrow[s])]
                     ELSE NoRates
        eigen     == safeGet(P.eigen)
        renzo     == IF renzoLook THEN safeGet(P.renzo) ELSE NULL
        kelp      == safeGet(P.kelp)
    IN  IF PoolsHaveData
        THEN [lidoStEthApr |-> lidoApr,
              aaveSupplyRates |-> supply,
              aaveBorrowRates |-> borrow,
              eigenLayerBaseApr |-> eigen,
              renzoApyBoostDefillama |-> renzo,
              kelpApyBoost |-> kelp,
              miss |->
                 (IF lidoLook /\ ~Truthy(lidoApr) THEN {"lidoStEthApr"} ELSE {})
                 \cup {AaveSupplyKey(s) : s \in {t \in Symbols : supply[t] = NULL}}
                 \cup {AaveBorrowKey(s) : s \in {t \in Symbols : borrow[t] = NULL}}
                 \cup (IF ~Truthy(eigen) THEN {"eigenLayerBaseApr"} ELSE {})
                 \cup (IF renzoLook /\ ~Truthy(renzo) /\ ~HasSource(rd)
                       THEN {"renzoApyBoost"} ELSE {})
                 \cup (IF ~Truthy(kelp) THEN {"kelpApyBoost"} ELSE {}),
              lookup |-> {p \in Plugins :
                            \/ p = "lido" /\ lidoLook
                            \/ p = "aave" /\ aaveLook
                            \/ p = "renzo" /\ renzoLook}]
        ELSE [lidoStEthApr |-> NULL,
              aaveSupplyRates |-> NoRates,
              aaveBorrowRates |-> NoRates,
              eigenLayerBaseApr |-> NULL,
              renzoApyBoostDefillama |-> NULL,
              kelpApyBoost |-> NULL,
              miss |-> IF world.pools.kind = "rejected" THEN {"yieldPools"} ELSE {},
              lookup |-> {}]

(* Lines 374-411: the gas prices, from the two fetch results *)

\* the settled promise of fetch(...).then(res => res.json()), as
\* Promise.allSettled reports it
Settled(answer) ==
    IF answer = "throw" THEN [status |-> "rejected", value |-> "error"]
    ELSE [status |-> "fulfilled", value |-> answer]

\* blocknativeGasData.status === 'fulfilled' && value?.blockPrices?.length > 0
BlocknativeUsable(bn) ==
    bn.status = "fulfilled" /\ bn.value \in {"ok", "noavg", "noprices"}

\* etherscanGasData.status === 'fulfilled' && value?.result
EtherscanUsable(es) ==
    es.status = "fulfilled" /\ es.value \in {"ok", "errresult"}

\* blockPrices[0].estimatedPrices is undefined: gasPrices.find throws
GasThrow(bn) == bn.status = "fulfilled" /\ bn.value = "noprices"

\* gasCurrent.average ? gasCurrent.average * gas * 0.000000001 : null
\* (gas in units of 10^4, the result in units of 10^-5 ETH)
GasCost(average, gas) == IF Truthy(average) THEN average * gas ELSE NULL

Estimation(average) ==
    [stake |-> GasCost(average, 10), swap |-> GasCost(average, 15),
     supply |-> GasCost(average, 12), borrow |-> GasCost(average, 18)]

GasStep(bn, es) ==
    IF BlocknativeUsable(bn)
    THEN LET cur == [slow |-> 25,
                     average |-> IF bn.value = "ok" THEN 32 ELSE NULL,
                     fast |-> 42]
         IN  [gasCurrent |-> cur, gasEstimation |-> Estimation(cur.average),
              miss |-> {}]
    ELSE IF EtherscanUsable(es)
    THEN LET cur == IF es.value = "ok"
                    THEN [slow |-> 20, average |-> 30, fast |-> 40]
                    ELSE NoGas
         IN  [gasCurrent |-> cur, gasEstimation |-> Estimation(cur.average),
              miss |-> {}]
    ELSE [gasCurrent |-> NoGas, gasEstimation |-> NoEstimation,
          miss |-> {"gasData"}]

-----------------------------------------------------------------------------
(* Lines 241-416: everything between the last gas answer and the wait for  *)
(* the plugin promises runs without suspension.  A TypeError thrown there  *)
(* is caught at line 471 and the error object is returned at once.         *)

ErrorResult == [kind |-> "error", missingData |-> {"critical"}]

Process(bn, es) ==
    LET ps == PoolStep(lidoData, aaveData, renzoDataFromPlugin)
        gs == GasStep(bn, es)
        S  == world.scalars
    IN  IF PoolsThrow
        THEN /\ result' = ErrorResult
             /\ pc' = "done"
             /\ UNCHANGED <<locals, missingData, llamaLookup>>
        ELSE IF GasThrow(bn)
        THEN /\ result' = ErrorResult
             /\ pc' = "done"
             /\ missingData' = missingData \cup ps.miss
             /\ llamaLookup' = ps.lookup
             /\ locals' = [locals EXCEPT
                   !.lidoStEthApr = ps.lidoStEthApr,
                   !.aaveSupplyRates = ps.aaveSupplyRates,
                   !.aaveBorrowRates = ps.aaveBorrowRates,
                   !.eigenLayerBaseApr = ps.eigenLayerBaseApr,
                   !.renzoApyBoostDefillama = ps.renzoApyBoostDefillama,
                   !.kelpApyBoost = ps.kelpApyBoost,
                   !.tvl = IF S.tvls THEN 13 ELSE NULL,
                   !.yearnTvl = IF S.yearn THEN 5 ELSE NULL,
                   !.ethPrice = IF S.ethPrice THEN 3240 ELSE NULL]
        ELSE /\ locals' =
                  [lidoStEthApr |-> ps.lidoStEthApr,
                   aaveSupplyRates |-> ps.aaveSupplyRates,
                   aaveBorrowRates |-> ps.aaveBorrowRates,
                   eigenLayerBaseApr |-> ps.eigenLayerBaseApr,
                   renzoApyBoostDefillama |-> ps.renzoApyBoostDefillama,
                   kelpApyBoost |-> ps.kelpApyBoost,
                   tvl |-> IF S.tvls THEN 13 ELSE NULL,
                   yearnTvl |-> IF S.yearn THEN 5 ELSE NULL,
                   ethPrice |-> IF S.ethPrice THEN 3240 ELSE NULL,
                   gasCurrent |-> gs.gasCurrent,
                   gasEstimation |-> gs.gasEstimation]
             /\ missingData' = missingData \cup ps.miss \cup gs.miss
             /\ llamaLookup' = ps.lookup
             /\ pc' = "awaitPlugins"
             /\ UNCHANGED result

(* Lines 217-239: the Blocknative answer arrives.  Only a thrown fetch or  *)
(* json() marks it rejected and sends the Etherscan request.               *)
BlocknativeDone ==
    /\ pc = "awaitBlocknative"
    /\ LET bn == Settled(world.gas.bn)
       IN  /\ gasFetch' = [gasFetch EXCEPT !.bn = bn]
           /\ IF bn.status = "rejected"
              THEN /\ pc' = "awaitEtherscan"
                   /\ UNCHANGED <<locals, missingData, llamaLookup, result>>
              ELSE Process(bn, gasFetch.es)
    /\ UNCHANGED <<world, plug, lidoData, aaveData, renzoDataFromPlugin, llama>>
    /\ UNCHANGED <<svars, cvars, lvars, pvars>>

(* Lines 230-239: the Etherscan answer arrives *)
EtherscanDone ==
    /\ pc = "awaitEtherscan"
    /\ LET es == Settled(world.gas.es)
       IN  /\ gasFetch' = [gasFetch EXCEPT !.es = es]
           /\ Process(gasFetch.bn, es)
    /\ UNCHANGED <<world, plug, lidoData, aaveData, renzoDataFromPlugin, llama>>
    /\ UNCHANGED <<svars, cvars, lvars, pvars>>

(* Lines 413-470: Promise.allSettled(pluginPromises) resolves and the      *)
(* result object is built                                                  *)

NoDataAvailable == "No Data Available"

Snapshot ==
    LET L == locals
        aaveFallbackSource ==
            IF KeyCount(L.aaveSupplyRates) > 0 THEN "DefiLlama (fallback)"
            ELSE NoDataAvailable
        renzoFallbackSource ==
            IF Truthy(L.renzoApyBoostDefillama) THEN "DefiLlama (fallback)"
            ELSE NoDataAvailable
    IN  [kind |-> "snapshot",
         lido |-> IF lidoData.set
                  THEN [stETHAPR |-> lidoData.stETHAPR, tvl |-> lidoData.tvl,
                        fee |-> 10]
                  ELSE [stETHAPR |-> L.lidoStEthApr, tvl |-> L.tvl,
                        fee |-> 10],
         aave |-> IF aaveData.set
                  THEN [supplyRates |-> aaveData.supplyRates,
                        borrowRates |-> aaveData.borrowRates,
                        source |-> aaveData.source]
                  ELSE [supplyRates |-> L.aaveSupplyRates,
                        borrowRates |-> L.aaveBorrowRates,
                        source |-> aaveFallbackSource],
         eigenLayer |-> [baseAPR |-> L.eigenLayerBaseApr, tvl |-> L.tvl],
         renzo |-> IF renzoDataFromPlugin.set
                   THEN [apyBoost |-> renzoDataFromPlugin.apyBoost,
                         tvl |-> renzoDataFromPlugin.tvl,
                         fee |-> UNDEF,
                         source |-> renzoDataFromPlugin.source]
                   ELSE [apyBoost |-> L.renzoApyBoostDefillama, tvl |-> L.tvl,
                         fee |-> 15,
                         source |-> renzoFallbackSource],
         kelp |-> [apyBoost |-> L.kelpApyBoost, tvl |-> L.tvl, fee |-> 10],
         yearn |-> [tvl |-> L.yearnTvl],
         gas |-> [current |-> L.gasCurrent, estimation |-> L.gasEstimation,
                  ethPrice |-> L.ethPrice],
         missingData |-> missingData,
         dataSources |->
            [lido |-> IF HasSource(lidoData) THEN lidoData.source
                      ELSE IF Truthy(L.lidoStEthApr) THEN "DefiLlama"
                      ELSE NoDataAvailable,
             aave |-> IF HasSource(aaveData) THEN aaveData.source
                      ELSE aaveFallbackSource,
             renzo |-> IF HasSource(renzoDataFromPlugin)
                       THEN renzoDataFromPlugin.source
                       ELSE renzoFallbackSource,
             eigenLayer |-> IF Truthy(L.eigenLayerBaseApr) THEN "DefiLlama"
                            ELSE NoDataAvailable,
             kelp |-> IF Truthy(L.kelpApyBoost) THEN "DefiLlama"
                      ELSE NoDataAvailable,
             gas |-> IF Truthy(L.gasCurrent.average)
                     THEN IF BlocknativeUsable(gasFetch.bn) THEN "Blocknative"
                          ELSE IF EtherscanUsable(gasFetch.es) THEN "Etherscan"
                          ELSE NoDataAvailable
                     ELSE NoDataAvailable]]

Return ==
    /\ pc = "awaitPlugins"
    /\ \A p \in Plugins : plug[p] # "pending"
    /\ result' = Snapshot
    /\ pc' = "done"
    /\ UNCHANGED <<world, plug, lidoData, aaveData, renzoDataFromPlugin,
                   missingData, llama, gasFetch, locals, llamaLookup>>
    /\ UNCHANGED <<svars, cvars, lvars, pvars>>

OrchNext ==
    \/ Start
    \/ LidoSettled
    \/ AaveSettled
    \/ RenzoSettled
    \/ LlamaSettled
    \/ BlocknativeDone
    \/ EtherscanDone
    \/ Return

-----------------------------------------------------------------------------
(* strategyBuilder, calculateYield, mockAIStrategy, generateInsights       *)
(*                                                                         *)
(* A JavaScript number that may be NaN is a record; v counts units that    *)
(* the operator using it names (a product of a fee in hundredths and a     *)
(* rate in hundredths of a percent is in units of 10^-4 percent).          *)

Num(v) == [nan |-> FALSE, v |-> v]
NaN    == [nan |-> TRUE, v |-> 0]

\* the number an operand becomes: null is 0, undefined is NaN
ToNumber(v) == IF v = UNDEF THEN NaN ELSE IF v = NULL THEN Num(0) ELSE Num(v)

Plus(a, b)  == IF a.nan \/ b.nan THEN NaN ELSE Num(a.v + b.v)
Minus(a, b) == IF a.nan \/ b.nan THEN NaN ELSE Num(a.v - b.v)
Times(a, b) == IF a.nan \/ b.nan THEN NaN ELSE Num(a.v * b.v)

\* x || 0 for a number x: NaN and 0 are falsy
OrZero(a) == IF a.nan THEN Num(0) ELSE a

\* n / d rounded to the nearest integer, a half away from zero
RoundDiv(n, d) ==
    IF n >= 0 THEN (2 * n + d) \div (2 * d)
    ELSE 0 - ((2 * (0 - n) + d) \div (2 * d))

\* x.toFixed(k): a holds x in units u, the result holds it in units d * u
toFixed(a, d) == IF a.nan THEN NaN ELSE Num(RoundDiv(a.v, d))

\* v > k and v < k for a property value v: undefined compares false, null
\* compares as 0
Gt(v, k) == v # UNDEF /\ (IF v = NULL THEN 0 ELSE v) > k
Lt(v, k) == v # UNDEF /\ (IF v = NULL THEN 0 ELSE v) < k

\* route.includes(step)
Includes(route, step) == \E i \in 1..Len(route) : route[i] = step

(* The sections of a snapshot getProtocolData returns (lines 419-470)      *)

\* (a rate below zero: -0.2%, as an epoch with slashing reports)
LidoSections ==
    {[stETHAPR |-> a, tvl |-> 13, fee |-> 10] : a \in {NULL, 0, 380, -20}}

\* the Aave and the Renzo plugin never reject: the section is the plugin's
\* the pools DefiLlama lists for Aave while USDC (2.5%) and ETH (2.6%) are
\* cheap to borrow
AavePoolsCheap ==
    [supply |-> [s \in Symbols |-> IF s = "ETH" THEN 180
                                   ELSE IF s = "stETH" THEN 20 ELSE 410],
     borrow |-> [s \in Symbols |-> IF s = "ETH" THEN 260
                                   ELSE IF s = "stETH" THEN NULL ELSE 250]]

\* the pools DefiLlama lists for Aave when none carries apyBaseBorrow or
\* apyBorrow: pool.apyBaseBorrow || pool.apyBorrow || null is null
AavePoolsNoBorrow ==
    [supply |-> [s \in Symbols |-> IF s = "ETH" THEN 180
                                   ELSE IF s = "stETH" THEN 20 ELSE 410],
     borrow |-> [s \in Symbols |-> NULL]]

AaveSections ==
    AaveAnswers \cup
    {AavePlugin(AaveGraphFail, [ok |-> TRUE] @@ p) :
        p \in {AavePoolsCheap, AavePoolsNoBorrow}}

RenzoSections ==
    {[apyBoost |-> r.apyBoost, tvl |-> r.tvl, fee |-> UNDEF,
      source |-> r.source] : r \in RenzoAnswers}

KelpSections ==
    {[apyBoost |-> k, tvl |-> 13, fee |-> 10] : k \in {NULL, 290}}

\* the answers of the two gas providers a strategy is computed under
StrategyGasAnswers ==
    {[bn |-> "throw", es |-> "throw"], [bn |-> "throw", es |-> "ok"],
     [bn |-> "errbody", es |-> "ok"], [bn |-> "noavg", es |-> "ok"],
     [bn |-> "noprices", es |-> "ok"], [bn |-> "ok", es |-> "ok"]}

\* the gas section of the snapshot of a pass the providers answer with g
GasSection(g) ==
    LET bn == Settled(g.bn)
        es == IF bn.status = "rejected" THEN Settled(g.es) ELSE NotFetched
        gs == GasStep(bn, es)
    IN  [current |-> gs.gasCurrent, estimation |-> gs.gasEstimation,
         ethPrice |-> 3240]

\* the object a pass returns, as far as the strategy code reads it
PassResult(lido, aave, renzo, kelp, g) ==
    IF GasThrow(Settled(g.bn)) THEN ErrorResult
    ELSE [kind |-> "snapshot", lido |-> lido, aave |-> aave, renzo |-> renzo,
          kelp |-> kelp, gas |-> GasSection(g)]

(* The user's input.  "" is a missing text, UNDEF a missing number;        *)
(* amounts are in ETH (or units of the asset), gasLimitEth in 10^-4 ETH.   *)

Assets == {"ETH", "USDC", "DAI"}
Risks  == {"", "low", "medium", "high", "degen"}
Amounts == {0, 1, 3}
Horizons ==
    {[timeHorizonDays |-> UNDEF, gasLimitEth |-> UNDEF],
     [timeHorizonDays |-> 30, gasLimitEth |-> 128],
     [timeHorizonDays |-> 365, gasLimitEth |-> 0]}

UserInputs ==
    {[inputAsset |-> a, riskTolerance |-> r, amount |-> m,
      timeHorizonDays |-> h.timeHorizonDays, gasLimitEth |-> h.gasLimitEth] :
        a \in Assets, r \in Risks, m \in Amounts, h \in Horizons}

-----------------------------------------------------------------------------
(* strategyBuilder.js lines 27-33: the sections read, with their defaults  *)

IsSnapshot(d) == d.kind = "snapshot"

gasDataOf(d) ==
    IF IsSnapshot(d) THEN d.gas
    ELSE [current |-> [average |-> 0],
          estimation |-> [stake |-> 0, swap |-> 0, supply |-> 0, borrow |-> 0]]
lidoDataOf(d) ==
    IF IsSnapshot(d) THEN d.lido ELSE [stETHAPR |-> 0, fee |-> 0]
aaveDataOf(d) ==
    IF IsSnapshot(d) THEN d.aave
    ELSE [supplyRates |-> NoRates, borrowRates |-> NoRates]
renzoDataOf(d) ==
    IF IsSnapshot(d) THEN d.renzo ELSE [apyBoost |-> 0, fee |-> 0]
kelpDataOf(d) ==
    IF IsSnapshot(d) THEN d.kelp ELSE [apyBoost |-> 0, fee |-> 0]

(* Lines 150-240: the route builders *)

\* (lidoData.stETHAPR || 3.8) > 0
LidoPays(d) == Gt(Or(lidoDataOf(d).stETHAPR, 380), 0)

buildLowRiskETHRoute(d) ==
    IF LidoPays(d) THEN <<"ETH", "stETH">> ELSE <<"ETH", "Hold">>

\* the route buildMediumRiskETHRoute collects before it tests its length
EnrichedMediumETH(d) ==
    LET aave  == aaveDataOf(d)
        renzo == renzoDataOf(d)
        r3 == IF Gt(renzo.apyBoost, 100) THEN <<"Renzo">> ELSE <<>>
        r2 == IF Lt(aave.borrowRates["USDC"], 300)
              THEN <<"borrow USDC", "swap to ETH">> \o r3 ELSE <<>>
        r1 == IF Gt(aave.supplyRates["stETH"], 0)
              THEN <<"Aave">> \o r2 ELSE <<>>
    IN  IF LidoPays(d) THEN <<"ETH", "stETH", "wstETH">> \o r1 ELSE <<>>

buildMediumRiskETHRoute(d) ==
    LET route == EnrichedMediumETH(d)
    IN  IF Len(route) > 1 THEN route ELSE <<"ETH", "stETH">>

\* the route buildHighRiskETHRoute collects before it tests its length
EnrichedHighETH(d) ==
    LET aave  == aaveDataOf(d)
        renzo == renzoDataOf(d)
        kelp  == kelpDataOf(d)
        r5 == IF Gt(kelp.apyBoost, 100) THEN <<"Kelp">> ELSE <<>>
        r4 == IF Lt(aave.borrowRates["ETH"], 400)
              THEN <<"Aave", "borrow ETH">> \o r5 ELSE <<>>
        r3 == IF Gt(renzo.apyBoost, 100) THEN <<"Renzo">> \o r4 ELSE <<>>
        r2 == IF Lt(aave.borrowRates["USDC"], 350)
              THEN <<"borrow USDC", "swap to ETH">> \o r3 ELSE <<>>
        r1 == IF Gt(aave.supplyRates["stETH"], 0)
              THEN <<"Aave">> \o r2 ELSE <<>>
    IN  IF LidoPays(d) THEN <<"ETH", "stETH", "wstETH">> \o r1 ELSE <<>>

buildHighRiskETHRoute(d) ==
    LET route == EnrichedHighETH(d)
    IN  IF Len(route) > 2 THEN route ELSE buildMediumRiskETHRoute(d)

buildLowRiskUSDCRoute(d) ==
    IF Gt(aaveDataOf(d).supplyRates["USDC"], 0)
    THEN <<"USDC", "Aave Supply">> ELSE <<"USDC", "Hold">>

\* the route buildMediumRiskUSDCRoute collects before it tests its length
EnrichedMediumUSDC(d) ==
    LET aave == aaveDataOf(d)
        r1 == IF Gt(aave.supplyRates["stETH"], 0)
                 /\ Lt(aave.borrowRates["USDC"], 300)
              THEN <<"Aave", "borrow USDC">> ELSE <<>>
    IN  <<"USDC">> \o
        (IF LidoPays(d) THEN <<"swap to ETH", "stETH">> \o r1 ELSE <<>>)

buildMediumRiskUSDCRoute(d) ==
    LET route == EnrichedMediumUSDC(d)
    IN  IF Len(route) > 2 THEN route ELSE buildLowRiskUSDCRoute(d)

\* the route buildHighRiskUSDCRoute collects before it tests its length
EnrichedHighUSDC(d) ==
    LET aave  == aaveDataOf(d)
        renzo == renzoDataOf(d)
        r2 == IF Gt(renzo.apyBoost, 100) THEN <<"Renzo">> ELSE <<>>
        r1 == IF Gt(aave.supplyRates["stETH"], 0)
                 /\ Lt(aave.borrowRates["USDC"], 350)
              THEN <<"Aave", "borrow USDC", "swap to ETH">> \o r2 ELSE <<>>
    IN  <<"USDC">> \o
        (IF LidoPays(d) THEN <<"swap to ETH", "stETH">> \o r1 ELSE <<>>)

buildHighRiskUSDCRoute(d) ==
    LET route == EnrichedHighUSDC(d)
    IN  IF Len(route) > 3 THEN route ELSE buildMediumRiskUSDCRoute(d)

buildDefaultRoute(d) ==
    IF Gt(lidoDataOf(d).stETHAPR, 0) THEN <<"ETH", "stETH">>
    ELSE <<"ETH", "Hold">>

(* Lines 243-298: the insight texts, by the template chosen.  The two USDC *)
(* helpers read a variable aaveData that is not in their scope: choosing   *)
(* the 'Aave Supply' text throws a ReferenceError.                         *)

buildInsightForRoute(route) ==
    IF Len(route) <= 2 THEN "simple staking"
    ELSE IF Includes(route, "Renzo") THEN "aave and renzo"
    ELSE IF Includes(route, "Aave") THEN "aave"
    ELSE "staking"

buildInsightForHighRiskRoute(route) ==
    IF Includes(route, "Kelp") THEN "renzo and kelp"
    ELSE IF Includes(route, "Renzo") THEN "leveraged renzo"
    ELSE IF Includes(route, "Aave") THEN "leveraged aave"
    ELSE "simple staking, lower risk than intended"

buildInsightForUSDCMediumRisk(route) ==
    IF Len(route) <= 2
    THEN IF Includes(route, "Aave Supply") THEN "ReferenceError"
         ELSE "simple supply"
    ELSE IF Includes(route, "Aave") THEN "partial loop"
    ELSE "usdc to staking"

buildInsightForUSDCHighRisk(route) ==
    IF Includes(route, "Renzo") THEN "usdc renzo"
    ELSE IF Includes(route, "Aave") THEN "usdc leveraged aave"
    ELSE IF Includes(route, "Aave Supply") THEN "ReferenceError"
    ELSE "simple supply, lower risk than intended"

-----------------------------------------------------------------------------
(* strategyBuilder, lines 9-147.  In the result grossAPR and netYield are  *)
(* in tenths of a percent (the text "3.8%" is 38), gasEstimateEth is in    *)
(* units of 10^-4 ETH (the text "0.0020" is 20), riskScore in tenths.      *)

\* a rate in hundredths of a percent, in units of 10^-4 percent
Rate(v) == Times(Num(100), ToNumber(v))

\* fee * rate, in units of 10^-4 percent
Fee(fee, rate) == Times(ToNumber(fee), ToNumber(rate))

\* calculateGasEstimate (lines 36-39):
\* (numTransactions * (gasData.estimation.stake || 0.002)).toFixed(4)
calculateGasEstimate(d, numTransactions) ==
    LET avgGasPerTx == Or(gasDataOf(d).estimation.stake, 200)
    IN  RoundDiv(numTransactions * avgGasPerTx, 10)

\* lines 43-118: route, yields, gas, risk and texts by asset and risk
Branch(asset, risk, d) ==
    LET lido   == lidoDataOf(d)
        aave   == aaveDataOf(d)
        renzo  == renzoDataOf(d)
        kelp   == kelpDataOf(d)
        base   == Or(lido.stETHAPR, 0)
        rBoost == Or(renzo.apyBoost, 0)
        kBoost == Or(kelp.apyBoost, 0)
        bUSDC  == Or(aave.borrowRates["USDC"], 0)
        bETH   == Or(aave.borrowRates["ETH"], 0)
        sUSDC  == Or(aave.supplyRates["USDC"], 0)
        sStETH == Or(aave.supplyRates["stETH"], 0)
        simple(route, score, text) ==
            [route |-> route,
             gross |-> Rate(base),
             net |-> OrZero(Minus(Rate(base), Fee(lido.fee, base))),
             gas |-> calculateGasEstimate(d, 1),
             riskScore |-> score, insight |-> text,
             judgment |-> "Optimal for low risk"]
    IN  IF asset = "ETH" /\ risk = "low"
        THEN simple(buildLowRiskETHRoute(d), 20, "lido staking")
        ELSE IF asset = "ETH" /\ risk = "medium"
        THEN LET route == buildMediumRiskETHRoute(d)
                 gross == Plus(Plus(Rate(base), Rate(rBoost)),
                               Times(Num(50), Num(base)))
             IN  [route |-> route,
                  gross |-> gross,
                  net |-> Minus(Minus(Minus(gross, Fee(lido.fee, base)),
                                      Fee(renzo.fee, rBoost)), Rate(bUSDC)),
                  gas |-> calculateGasEstimate(d, Len(route) - 1),
                  riskScore |-> 55, insight |-> buildInsightForRoute(route),
                  judgment |-> "Proceed with monitoring"]
        ELSE IF asset = "ETH" /\ risk = "high"
        THEN LET route == buildHighRiskETHRoute(d)
                 gross == Plus(Plus(Plus(Rate(base), Rate(rBoost)),
                                    Rate(kBoost)), Times(Num(80), Num(base)))
             IN  [route |-> route,
                  gross |-> gross,
                  net |-> Minus(Minus(Minus(Minus(Minus(gross,
                              Fee(lido.fee, base)), Fee(renzo.fee, rBoost)),
                              Fee(kelp.fee, kBoost)), Rate(bUSDC)), Rate(bETH)),
                  gas |-> calculateGasEstimate(d, Len(route) - 1),
                  riskScore |-> 82,
                  insight |-> buildInsightForHighRiskRoute(route),
                  judgment |-> "High Risk - Monitor Closely"]
        ELSE IF asset = "ETH"
        THEN [route |-> <<>>, gross |-> Num(0), net |-> Num(0), gas |-> 0,
              riskScore |-> 0, insight |-> "", judgment |-> ""]
        ELSE IF asset = "USDC" /\ risk = "low"
        THEN [route |-> buildLowRiskUSDCRoute(d),
              gross |-> Rate(sUSDC),
              net |-> Times(Num(95), Num(sUSDC)),
              gas |-> calculateGasEstimate(d, 1),
              riskScore |-> 21, insight |-> "aave supply",
              judgment |-> "Optimal for low risk"]
        ELSE IF asset = "USDC" /\ risk = "medium"
        THEN LET route == buildMediumRiskUSDCRoute(d)
                 gross == Plus(Rate(base), Rate(sStETH))
             IN  [route |-> route,
                  gross |-> gross,
                  net |-> Minus(Minus(gross, Rate(bUSDC)), Fee(lido.fee, base)),
                  gas |-> calculateGasEstimate(d, Len(route) - 1),
                  riskScore |-> 58,
                  insight |-> buildInsightForUSDCMediumRisk(route),
                  judgment |-> "Proceed with caution"]
        ELSE IF asset = "USDC" /\ risk = "high"
        THEN LET route == buildHighRiskUSDCRoute(d)
                 gross == Plus(Plus(Rate(base), Rate(rBoost)),
                               Times(Num(40), Num(base)))
             IN  [route |-> route,
                  gross |-> gross,
                  net |-> Minus(Minus(Minus(gross, Fee(lido.fee, base)),
                                      Fee(renzo.fee, rBoost)), Rate(bUSDC)),
                  gas |-> calculateGasEstimate(d, Len(route) - 1),
                  riskScore |-> 79,
                  insight |-> buildInsightForUSDCHighRisk(route),
                  judgment |-> "High Risk - Consider Partial Position"]
        ELSE IF asset = "USDC"
        THEN [route |-> <<>>, gross |-> Num(0), net |-> Num(0), gas |-> 0,
              riskScore |-> 0, insight |-> "", judgment |-> ""]
        ELSE simple(buildDefaultRoute(d), 20, "default lido staking")

RealData == "Real Data"

\* lines 137-144
BuilderDataSources(d) ==
    LET lido  == lidoDataOf(d)
        aave  == aaveDataOf(d)
        renzo == renzoDataOf(d)
        kelp  == kelpDataOf(d)
        gas   == gasDataOf(d)
        flag(real) == IF real THEN RealData ELSE NoDataAvailable
    IN  [lidoAPR |-> flag(lido.stETHAPR # 0),
         aaveSupplyRates |-> flag(KeyCount(aave.supplyRates) > 0
                                  /\ aave.supplyRates["stETH"] # UNDEF),
         aaveBorrowRates |-> flag(KeyCount(aave.borrowRates) > 0
                                  /\ aave.borrowRates["USDC"] # UNDEF),
         renzoBoost |-> flag(renzo.apyBoost # 0),
         kelpBoost |-> flag(kelp.apyBoost # 0),
         gasEstimate |-> flag(gas.current.average # 0)]

\* a builder whose score follows the emitted route: a route of one step
\* scores as simple staking does
strategyBuilderScoringRoute(strategyInput, protocolData) ==
    LET asset  == IF strategyInput.inputAsset = "" THEN "ETH"
                  ELSE strategyInput.inputAsset
        risk   == IF strategyInput.riskTolerance = "" THEN "medium"
                  ELSE strategyInput.riskTolerance
        amount == Or(strategyInput.amount, 1)
        b      == Branch(asset, risk, protocolData)
    IN  IF b.insight = "ReferenceError"
        THEN [kind |-> "throw", error |-> "ReferenceError"]
        ELSE [kind |-> "strategy",
              proposedRoute |-> b.route,
              grossAPR |-> toFixed(b.gross, 1000),
              netYield |-> toFixed(b.net, 1000),
              gasEstimateEth |-> RoundDiv(b.gas * amount, 2),
              riskScore |-> IF Len(b.route) > 2 THEN b.riskScore ELSE 20,
              insight |-> b.insight,
              judgment |-> b.judgment,
              dataSources |-> BuilderDataSources(protocolData),
              warnings |-> <<>>,
              warning |-> "Some values may be zero due to unavailable API data"]
\* lines 9-147
strategyBuilder(strategyInput, protocolData) ==
    LET asset  == IF strategyInput.inputAsset = "" THEN "ETH"
                  ELSE strategyInput.inputAsset
        risk   == IF strategyInput.riskTolerance = "" THEN "medium"
                  ELSE strategyInput.riskTolerance
        amount == Or(strategyInput.amount, 1)
        b      == Branch(asset, risk, protocolData)
    IN  IF b.insight = "ReferenceError"
        THEN [kind |-> "throw", error |-> "ReferenceError"]
        ELSE [kind |-> "strategy",
              proposedRoute |-> b.route,
              grossAPR |-> toFixed(b.gross, 1000),
              netYield |-> toFixed(b.net, 1000),
              gasEstimateEth |-> RoundDiv(b.gas * amount, 2),
              riskScore |-> b.riskScore,
              insight |-> b.insight,
              judgment |-> b.judgment,
              dataSources |-> BuilderDataSources(protocolData),
              warnings |-> <<>>,
              warning |-> "Some values may be zero due to unavailable API data"]

-----------------------------------------------------------------------------
(* mockAIStrategy (strategyBuilder.js lines 307-379): a fixed table *)

MockRouteETHMedium ==
    <<"ETH", "stETH", "wstETH", "Aave", "borrow USDC", "swap to ETH", "Renzo">>
MockRouteUSDCMedium ==
    <<"USDC", "swap to ETH", "stETH", "Aave", "borrow USDC">>

MockEntry(route, gross, net, gas, score, judgment) ==
    [kind |-> "strategy", proposedRoute |-> route, grossAPR |-> Num(gross),
     netYield |-> Num(net), gasEstimateEth |-> gas, riskScore |-> score,
     insight |-> "mock", judgment |-> judgment, warnings |-> <<>>]

mockAIStrategy(strategyInput) ==
    LET asset == IF strategyInput.inputAsset \in {"ETH", "USDC"}
                 THEN strategyInput.inputAsset ELSE "ETH"
        risk  == IF strategyInput.riskTolerance \in {"low", "medium", "high"}
                 THEN strategyInput.riskTolerance ELSE "medium"
    IN  IF asset = "ETH"
        THEN IF risk = "low"
             THEN MockEntry(<<"ETH", "stETH">>, 38, 37, 21, 20,
                            "Optimal for low risk")
             ELSE IF risk = "medium"
             THEN MockEntry(MockRouteETHMedium, 82, 71, 51, 55,
                            "Proceed with monitoring")
             ELSE MockEntry(MockRouteETHMedium
                                \o <<"Aave", "borrow ETH", "Kelp">>,
                            164, 112, 94, 82, "High Risk - Monitor Closely")
        ELSE IF risk = "low"
             THEN MockEntry(<<"USDC", "Aave Supply">>, 42, 40, 18, 21,
                            "Optimal for low risk")
             ELSE IF risk = "medium"
             THEN MockEntry(MockRouteUSDCMedium, 72, 61, 62, 58,
                            "Proceed with caution")
             ELSE MockEntry(MockRouteUSDCMedium \o <<"swap to ETH", "Renzo">>,
                            124, 91, 89, 79,
                            "High Risk - Consider Partial Position")

(* calculateYield and estimateTransactionCount (projections/index.js)      *)

\* the steps of a route that contain one of the texts of txOperations
\* ('stETH', 'wstETH', 'Aave', 'borrow', 'swap', 'stake', 'supply', 'Renzo',
\* 'Kelp'); 'ETH', 'USDC' and 'Hold' contain none
TxSteps ==
    {"stETH", "wstETH", "Aave", "borrow USDC", "swap to ETH", "Renzo",
     "borrow ETH", "Kelp", "Aave Supply"}

estimateTransactionCount(route) ==
    LET txCount == Cardinality({i \in 1..Len(route) : route[i] \in TxSteps})
    IN  IF txCount > 1 THEN txCount ELSE 1

\* a pass without the catch of protocols/index.js lines 471-480: the error
\* of the gas section reaches the caller
YieldPassRejecting(g) ==
    IF GasThrow(Settled(g.bn)) THEN [kind |-> "throw", error |-> "TypeError"]
    ELSE [kind |-> "snapshot", gas |-> GasSection(g)]
\* what calculateYield reads of the pass it runs itself
YieldPass(g) ==
    IF GasThrow(Settled(g.bn)) THEN ErrorResult
    ELSE [kind |-> "snapshot", gas |-> GasSection(g)]

\* periodGrossReturn and periodNetReturn are in hundredths of a percent,
\* absoluteReturn in units of 10^-4 of the asset
NoPeriod == [set |-> FALSE, gross |-> NaN, net |-> NaN, absolute |-> NaN]

\* a test that also holds when the estimate equals the limit
ReachesLimit(gasEstimate, limit) ==
    limit # UNDEF /\ gasEstimate >= (IF limit = NULL THEN 0 ELSE limit)
\* gasEstimate > userInput.gasLimitEth (line 46): no limit compares false,
\* null compares as 0
ExceedsLimit(gasEstimate, limit) ==
    limit # UNDEF /\ gasEstimate > (IF limit = NULL THEN 0 ELSE limit)

calculateYield(strategy, userInput, protocolData) ==
    LET days   == userInput.timeHorizonDays
        period ==
            IF Truthy(days)
            THEN [set |-> TRUE,
                  gross |-> toFixed(Times(strategy.grossAPR, Num(10 * days)),
                                    365),
                  net |-> toFixed(Times(strategy.netYield, Num(10 * days)),
                                  365),
                  absolute |->
                      toFixed(Times(Times(strategy.netYield, Num(10 * days)),
                                    ToNumber(userInput.amount)), 365)]
            ELSE NoPeriod
        txCount == estimateTransactionCount(strategy.proposedRoute)
        gasPrice == ToNumber(protocolData.gas.current.average)
        \* (200000 * gasPrice * txCount) / 1000000000, in units of 10^-4 ETH
        gasEstimate == 2 * gasPrice.v * txCount
        limit == userInput.gasLimitEth
    IN  IF IsSnapshot(protocolData)
        THEN [strategy EXCEPT
                 !.gasEstimateEth = gasEstimate,
                 !.warnings = IF ExceedsLimit(gasEstimate, limit)
                              THEN Append(@, "gas estimate exceeds limit")
                              ELSE @]
             @@ [period |-> period]
        ELSE strategy @@ [period |-> period]

(* generateInsights (insights/index.js) *)

generateInsights(strategy) ==
    LET first == IF Len(strategy.proposedRoute) > 0
                 THEN strategy.proposedRoute[1] ELSE "ETH"
        level == IF strategy.riskScore <= 30 THEN "low"
                 ELSE IF strategy.riskScore >= 70 THEN "high" ELSE "medium"
        key   == IF first \in {"ETH", "USDC"} THEN first ELSE "ETH"
    IN  strategy @@ [marketInsight |-> [asset |-> key, level |-> level]]

-----------------------------------------------------------------------------
(* The strategy computation: the actions *)

NoStrategy == [kind |-> "none"]

StratIdle ==
    /\ spc = "idle"
    /\ sin = [kind |-> "none"]
    /\ built = NoStrategy
    /\ final = NoStrategy

\* a user input and the snapshot of a pass are given
StratInit ==
    /\ spc = "start"
    /\ sin \in {[user |-> u, gasAnswers |-> g,
                  data |-> PassResult(l, a, r, k, g)] :
                    u \in UserInputs, l \in LidoSections, a \in AaveSections,
                    r \in RenzoSections, k \in KelpSections,
                    g \in StrategyGasAnswers}
    /\ built = NoStrategy
    /\ final = NoStrategy

\* a builder that takes a request over a year as one of low risk
BuildStrategyByHorizon ==
    /\ spc = "start"
    /\ built' = strategyBuilder(
                    IF sin.user.timeHorizonDays = 365
                    THEN [sin.user EXCEPT !.riskTolerance = "low"]
                    ELSE sin.user, sin.data)
    /\ spc' = "built"
    /\ UNCHANGED <<sin, final>>
    /\ UNCHANGED <<ovars, cvars, lvars, pvars>>
BuildStrategy ==
    /\ spc = "start"
    /\ built' = strategyBuilder(sin.user, sin.data)
    /\ spc' = "built"
    /\ UNCHANGED <<sin, final>>
    /\ UNCHANGED <<ovars, cvars, lvars, pvars>>

\* calculateYield applied to the strategy strategyBuilder returned; its own
\* pass is answered by the gas providers with g
CalculateYield ==
    /\ spc = "built"
    /\ built.kind = "strategy"
    /\ \E g \in StrategyGasAnswers :
          final' = calculateYield(built, sin.user, YieldPass(g))
                      @@ [origin |-> "strategyBuilder", gasAnswers |-> g]
    /\ spc' = "done"
    /\ UNCHANGED <<sin, built>>
    /\ UNCHANGED <<ovars, cvars, lvars, pvars>>

\* analyzeStrategy (analyzer/index.js lines 19-61): it reads two files, then
\* mockAIStrategy, calculateYield and generateInsights; any error is thrown
\* again as "Failed to analyze strategy: <message>"; configLoaded tells
\* whether the two files were read
AnalyzeStrategy ==
    /\ spc = "start"
    /\ \E filesRead \in BOOLEAN, g \in StrategyGasAnswers :
          LET pass == YieldPass(g)
              failed(message, loaded) ==
                  [kind |-> "throw",
                   error |-> "Failed to analyze strategy: " \o message,
                   configLoaded |-> loaded]
          IN  final' = IF ~filesRead THEN failed("ENOENT", FALSE)
                       ELSE IF pass.kind = "throw"
                       THEN failed(pass.error, TRUE)
                       ELSE generateInsights(
                                calculateYield(mockAIStrategy(sin.user),
                                               sin.user, pass))
                            @@ [origin |-> "mockAIStrategy",
                                gasAnswers |-> g]
    /\ spc' = "done"
    /\ UNCHANGED <<sin, built>>
    /\ UNCHANGED <<ovars, cvars, lvars, pvars>>

StratNext ==
    \/ BuildStrategy
    \/ CalculateYield
    \/ AnalyzeStrategy

(* calculateYield applied to a result it returned before.  The clone of    *)
(* line 15 copies the properties of the strategy, so the clone and the     *)
(* strategy hold the same warnings array when the strategy has one; a      *)
(* strategy has one when an earlier call pushed a warning (line 47).       *)

\* the strategy object a call received, as it is after the call returned
StrategyAfter(strategy, returned) ==
    IF Len(strategy.warnings) > 0
    THEN [strategy EXCEPT !.warnings = returned.warnings]
    ELSE strategy

\* after the call built is the object the call received, final the object
\* it returned
Recalculate ==
    /\ spc = "done"
    /\ final.kind = "strategy"
    /\ \E g \in StrategyGasAnswers :
          LET returned == [calculateYield(final, sin.user, YieldPass(g))
                              EXCEPT !.gasAnswers = g]
          IN  /\ final' = returned
              /\ built' = StrategyAfter(final, returned)
    /\ spc' = "again"
    /\ UNCHANGED sin
    /\ UNCHANGED <<ovars, cvars, lvars, pvars>>

\* a user input and the snapshot of a pass in which every source answered
YieldInit ==
    /\ spc = "start"
    /\ sin \in {[user |-> u, gasAnswers |-> g,
                  data |-> PassResult(l, a, r, k, g)] :
                    u \in UserInputs,
                    l \in {x \in LidoSections : x.stETHAPR = 380},
                    a \in {x \in AaveSections :
                              x.source = "mock-data-fallback"},
                    r \in {x \in RenzoSections :
                              x.apyBoost = 320 /\ x.tvl = 48},
                    k \in {x \in KelpSections : x.apyBoost = 290},
                    g \in StrategyGasAnswers}
    /\ built = NoStrategy
    /\ final = NoStrategy

YieldNext ==
    \/ BuildStrategy
    \/ CalculateYield
    \/ AnalyzeStrategy
    \/ Recalculate

-----------------------------------------------------------------------------
(* CacheService (projections/index.js lines 90-250) and the Redis server   *)
(*                                                                         *)
(* Time is counted in units of 1800 seconds, the shortest TTL a caller     *)
(* passes (DefiLlamaService.getPoolApr).                                   *)

MaxTime    == 2     \* the clock stops here

\* config.redis.cacheTtl: 3600 seconds by default
cacheTtl == 2

(* The values a caller hands to set.  A number, a list of numbers (the     *)
(* shape of a list of pools), NaN or Infinity, and undefined.              *)

JsNumber(n)    == [t |-> "number", n |-> n, items |-> <<>>]
JsList(items)  == [t |-> "list", n |-> 0, items |-> items]
JsNull         == [t |-> "null", n |-> 0, items |-> <<>>]
JsNonFinite    == [t |-> "nonfinite", n |-> 0, items |-> <<>>]
JsUndefined    == [t |-> "undefined", n |-> 0, items |-> <<>>]

Values == {JsNumber(38), JsList(<<38, 42>>), JsNonFinite, JsUndefined}

\* the values DefiLlamaService hands to set: a TVL or an APY, a list of
\* pools or of protocols (whole, filtered by project, or empty)
LlamaValues ==
    {JsNumber(38), JsList(<<>>), JsList(<<38>>), JsList(<<42>>),
     JsList(<<38, 42>>)}

\* the values a JSON text can denote
JsonValues ==
    {JsNull} \cup {v \in Values \cup LlamaValues : v.t \in {"number", "list"}}

RECURSIVE Joined(_)
Joined(items) ==
    IF Len(items) = 0 THEN ""
    ELSE IF Len(items) = 1 THEN ToString(items[1])
    ELSE ToString(items[1]) \o "," \o Joined(Tail(items))

\* JSON.stringify(data): the text; NaN and Infinity become null; for
\* undefined there is no text (Serializable is false)
Serializable(v) == v.t # "undefined"
Stringify(v) ==
    IF v.t = "number" THEN ToString(v.n)
    ELSE IF v.t = "list" THEN "[" \o Joined(v.items) \o "]"
    ELSE "null"

\* JSON.parse(text): the value the text denotes
Parse(text) == CHOOSE v \in JsonValues : Stringify(v) = text

(* Keys and prefixes *)

Keys     == {"a:1", "b:1"}
Prefixes == {"", "a:", "a?"}
Tails    == {"", "1", ":1", "a:1", "b:1"}

\* key starts with the text prefix
StartsWith(key, prefix) == \E rest \in Tails : prefix \o rest = key

\* the characters of a key or of a prefix
Letters(text) ==
    CASE text = ""    -> <<>>
      [] text = "a:"  -> <<"a", ":">>
      [] text = "a?"  -> <<"a", "?">>
      [] text = "a:1" -> <<"a", ":", "1">>
      [] text = "b:1" -> <<"b", ":", "1">>

\* KEYS takes a glob-style pattern: * matches any run of characters, ? any
\* one character, every other character of these samples itself
RECURSIVE GlobMatch(_, _)
GlobMatch(pattern, text) ==
    IF pattern = <<>> THEN text = <<>>
    ELSE IF Head(pattern) = "*"
    THEN \/ GlobMatch(Tail(pattern), text)
         \/ text # <<>> /\ GlobMatch(pattern, Tail(text))
    ELSE IF text = <<>> THEN FALSE
    ELSE IF Head(pattern) = "?" THEN GlobMatch(Tail(pattern), Tail(text))
    ELSE Head(pattern) = Head(text) /\ GlobMatch(Tail(pattern), Tail(text))

(* The Redis server: store maps a key to its text and expiry time *)

Nil == ""       \* the reply for a key that is not there

RedisGet(key) ==
    IF key \in DOMAIN store /\ now < store[key].exp THEN store[key].data
    ELSE Nil

\* an expiry that takes the default TTL whatever ttl the caller passed
ExpiryIgnoringTtl(ttl) == now + cacheTtl
\* SET key text EX ttl
Expiry(ttl) == now + ttl

RedisSet(key, text, ttl) ==
    (key :> [data |-> text, exp |-> Expiry(ttl)]) @@ store

RedisDel(keys) == [k \in DOMAIN store \ keys |-> store[k]]

\* KEYS pattern
RedisKeys(pattern) ==
    {k \in DOMAIN store : now < store[k].exp /\ GlobMatch(pattern, Letters(k))}

(* The state after construction (lines 91-96) *)

\* lastOp after a step that is not an operation
NoOp ==
    [op |-> "none", key |-> "", called |-> FALSE, clientThrew |-> FALSE,
     threw |-> FALSE]

CacheIdle ==
    /\ cacheEnabled = TRUE
    /\ client = 0
    /\ isConnected = FALSE
    /\ conn = "none"
    /\ stale = {}
    /\ store = <<>>
    /\ now = 0
    /\ written = <<>>
    /\ lastOp = NoOp

\* config.cache.enabled is read from the environment
CacheInit ==
    /\ cacheEnabled \in BOOLEAN
    /\ client = 0
    /\ isConnected = FALSE
    /\ conn = "none"
    /\ stale = {}
    /\ store = <<>>
    /\ now = 0
    /\ written = <<>>
    /\ lastOp = NoOp

(* Every init() makes a new client and registers handlers on it; the      *)
(* client held before is neither closed nor are its handlers removed.      *)
(* conn is the state of the connection of the client held; stale holds     *)
(* the states of the live connections of the clients held before.          *)

Live == {"ready", "reconnecting"}

\* the clients whose events can arrive
Sources == (IF client # 0 THEN {"held"} ELSE {}) \cup stale

\* the state of the connection of a source
StateOf(who) == IF who = "held" THEN conn ELSE who

\* the connection of a source goes to state to (several earlier clients
\* may be in one state: the state may stay in stale)
Moved(who, to) ==
    IF who = "held"
    THEN conn' = to /\ UNCHANGED stale
    ELSE /\ stale' \in {(stale \ {who}) \cup ({to} \cap Live),
                        stale \cup ({to} \cap Live)}
         /\ UNCHANGED conn

(* init(), lines 102-150.  createClient throws, or the new client is held  *)
(* and connect() resolves after 'ready' ("ready"), rejects ("closed"), or  *)
(* goes on trying after an 'error' ("reconnecting").                       *)
InitCall ==
    /\ IF ~cacheEnabled
       THEN UNCHANGED <<client, conn, stale, isConnected>>
       ELSE \E created \in BOOLEAN, outcome \in {"ready", "reconnecting",
                                                 "closed"} :
               IF created
               THEN /\ client' = 1
                    /\ conn' = outcome
                    /\ stale' = IF client # 0 /\ conn \in Live
                                THEN stale \cup {conn} ELSE stale
                    /\ isConnected' = (outcome = "ready")
               ELSE /\ isConnected' = FALSE
                    /\ UNCHANGED <<client, conn, stale>>
    /\ lastOp' = [NoOp EXCEPT !.op = "init"]
    /\ UNCHANGED <<cacheEnabled, store, now, written>>
    /\ UNCHANGED <<ovars, svars, lvars, pvars>>

(* The handlers registered on a client (lines 119-140).  Each is a closure *)
(* over the service: it writes this.isConnected whichever client the       *)
(* service holds by then.                                                  *)
OnReady(who) ==
    /\ StateOf(who) = "reconnecting"
    /\ Moved(who, "ready")
    /\ isConnected' = TRUE
    /\ lastOp' = NoOp
    /\ UNCHANGED <<cacheEnabled, client, store, now, written>>
    /\ UNCHANGED <<ovars, svars, lvars, pvars>>

OnError(who) ==
    /\ StateOf(who) \in Live
    /\ Moved(who, "reconnecting")
    /\ isConnected' = FALSE
    /\ lastOp' = NoOp
    /\ UNCHANGED <<cacheEnabled, client, store, now, written>>
    /\ UNCHANGED <<ovars, svars, lvars, pvars>>

OnEnd(who) ==
    /\ StateOf(who) \in Live
    /\ Moved(who, "closed")
    /\ isConnected' = FALSE
    /\ lastOp' = NoOp
    /\ UNCHANGED <<cacheEnabled, client, store, now, written>>
    /\ UNCHANGED <<ovars, svars, lvars, pvars>>

(* The four operations.  Each tests the two flags, then calls the client   *)
(* inside try/catch.  A call on a client that is null or not ready throws  *)
(* (TypeError, ClientClosedError); a call on a ready client may fail too.  *)

\* !this.isConnected || !this.cacheEnabled
Refuses == ~isConnected \/ ~cacheEnabled

\* the client the service holds has a live connection
Usable == client # 0 /\ conn = "ready"

\* the service is disabled, was never initialised, or the connection of the
\* client it holds is down
Down ==
    \/ ~cacheEnabled
    \/ client = 0
    \/ conn \in {"reconnecting", "closed"}

Op(name, key) == [NoOp EXCEPT !.op = name, !.key = key]

\* the operation returned at its first line
Refused(name, key, value) ==
    /\ lastOp' = Op(name, key) @@ [result |-> value]
    /\ UNCHANGED <<store, written>>

\* the client call threw, the catch block returned
Caught(name, key, value) ==
    /\ lastOp' = [Op(name, key) EXCEPT !.called = TRUE, !.clientThrew = TRUE]
                    @@ [result |-> value]
    /\ UNCHANGED <<store, written>>

\* the client call succeeded
Served(name, key, value) ==
    lastOp' = [Op(name, key) EXCEPT !.called = TRUE] @@ [result |-> value]

(* get(key), lines 157-172 *)
Get(key) ==
    /\ IF Refuses THEN Refused("get", key, JsNull)
       ELSE IF ~Usable THEN Caught("get", key, JsNull)
       ELSE \E fails \in BOOLEAN :
               IF fails THEN Caught("get", key, JsNull)
               ELSE LET data == RedisGet(key)
                    IN  /\ Served("get", key,
                                  IF data # Nil THEN Parse(data) ELSE JsNull)
                        /\ UNCHANGED <<store, written>>
    /\ UNCHANGED <<cacheEnabled, client, isConnected, conn, stale, now>>
    /\ UNCHANGED <<ovars, svars, pvars>>

(* set(key, data, ttl = config.redis.cacheTtl), lines 181-193.  The client *)
(* rejects a value that is not a text; the server rejects an expiry that   *)
(* is not positive.                                                        *)
Set(key, data, ttlArg) ==
    /\ LET ttl == IF ttlArg = UNDEF THEN cacheTtl ELSE ttlArg
       IN  IF Refuses THEN Refused("set", "", FALSE)
           ELSE IF ~Usable \/ ~Serializable(data) \/ ttl <= 0
           THEN Caught("set", "", FALSE)
           ELSE \E fails \in BOOLEAN :
                   IF fails THEN Caught("set", "", FALSE)
                   ELSE /\ store' = RedisSet(key, Stringify(data), ttl)
                        /\ written' = (key :> [value |-> data,
                                               exp |-> now + ttl]) @@ written
                        /\ Served("set", "", TRUE)
    /\ UNCHANGED <<cacheEnabled, client, isConnected, conn, stale, now>>
    /\ UNCHANGED <<ovars, svars, pvars>>

(* delete(key), lines 200-211 *)
Delete(key) ==
    /\ IF Refuses THEN Refused("delete", "", FALSE)
       ELSE IF ~Usable THEN Caught("delete", "", FALSE)
       ELSE \E fails \in BOOLEAN :
               IF fails THEN Caught("delete", "", FALSE)
               ELSE /\ store' = RedisDel({key})
                    /\ written' = [k \in DOMAIN written \ {key} |-> written[k]]
                    /\ Served("delete", "", TRUE)
    /\ UNCHANGED <<cacheEnabled, client, isConnected, conn, stale, now>>
    /\ UNCHANGED <<ovars, svars, lvars, pvars>>

(* clearByPrefix(prefix), lines 218-234: the pattern handed to KEYS is the *)
(* prefix followed by *; lastOp.key records the prefix of the call         *)
ClearByPrefix(prefix) ==
    /\ IF Refuses THEN Refused("clearByPrefix", prefix, 0)
       ELSE IF ~Usable THEN Caught("clearByPrefix", prefix, 0)
       ELSE \E fails \in BOOLEAN :
               IF fails THEN Caught("clearByPrefix", prefix, 0)
               ELSE LET keys == RedisKeys(Append(Letters(prefix), "*"))
                    IN  /\ store' = RedisDel(keys)
                        /\ written' = [k \in DOMAIN written \ keys |->
                                          written[k]]
                        /\ Served("clearByPrefix", prefix, Cardinality(keys))
    /\ UNCHANGED <<cacheEnabled, client, isConnected, conn, stale, now>>
    /\ UNCHANGED <<ovars, svars, lvars, pvars>>

(* close(), lines 239-249: quit() ends the connection of the client held;  *)
(* whether or not it throws, the flag is cleared                           *)
Close ==
    /\ client # 0
    /\ isConnected
    /\ conn' = IF conn = "ready" THEN "closed" ELSE conn
    /\ isConnected' = FALSE
    /\ lastOp' = [NoOp EXCEPT !.op = "close", !.called = TRUE]
    /\ UNCHANGED <<cacheEnabled, client, stale, store, now, written>>
    /\ UNCHANGED <<ovars, svars, lvars, pvars>>

(* Time passes on the server; a key whose time is up is gone *)
Tick ==
    /\ now < MaxTime
    /\ now' = now + 1
    /\ store' = [k \in {j \in DOMAIN store : now + 1 < store[j].exp} |->
                    store[k]]
    /\ lastOp' = NoOp
    /\ UNCHANGED <<cacheEnabled, client, isConnected, conn, stale, written>>
    /\ UNCHANGED <<ovars, svars, lvars, pvars>>

Ttls == {UNDEF, 0, 1}

Ready    == \E who \in Sources : OnReady(who)
Error    == \E who \in Sources : OnError(who)
End      == \E who \in Sources : OnEnd(who)
GetAny   == (\E k \in Keys : Get(k)) /\ UNCHANGED lvars
SetAny   ==
    (\E k \in Keys, v \in Values, t \in Ttls : Set(k, v, t)) /\ UNCHANGED lvars
DeleteAny == \E k \in Keys : Delete(k)
ClearAny == \E p \in Prefixes : ClearByPrefix(p)

CacheNext ==
    \/ InitCall
    \/ Ready
    \/ Error
    \/ End
    \/ GetAny
    \/ SetAny
    \/ DeleteAny
    \/ ClearAny
    \/ Close
    \/ Tick

-----------------------------------------------------------------------------
(* DefiLlamaService (projections/index.js lines 269-458).  Each of its     *)
(* five fetches asks the cache, then the HTTP API, then writes the cache.  *)

Methods == {"info", "tvl", "yields", "pool", "protocols"}

MaxFetches == 3     \* the fetches the service is called for

\* the calls made, with a protocol id that config.protocols lists with a
\* cache.ttl (aave) and one that it does not list; getAllProtocols takes
\* no id
Calls ==
    {<<"info", "yearn">>, <<"tvl", "aave">>, <<"yields", "aave">>,
     <<"pool", "aave">>, <<"protocols", "all">>}

\* config.cache.protocolPrefix
cachePrefix == "p:"

\* getCacheKey(protocolId, dataType), lines 286-288; getAllProtocols
\* passes ('all', 'protocols')
getCacheKey(protocolId, dataType) == cachePrefix \o protocolId \o ":" \o dataType

CacheKeyOf(method, id) ==
    IF method = "protocols" THEN getCacheKey("all", "protocols")
    ELSE getCacheKey(id, method)

\* if (v): a list is truthy, a number unless it is 0 (or NaN), null and
\* undefined are not
JsTruthy(v) == v.t = "list" \/ (v.t = "number" /\ v.n # 0)

\* The part of the response body a fetch reads: response.data for info,
\* tvl and protocols, response.data.data for yields, response.data.data.apy
\* for pool.  JsUndefined: the body has no such part.
Payloads(method) ==
    IF method = "info" THEN {JsUndefined, JsList(<<38, 42>>)}
    ELSE IF method \in {"tvl", "pool"} THEN {JsUndefined, JsNumber(0), JsNumber(38)}
    ELSE {JsUndefined, JsNumber(38), JsList(<<>>), JsList(<<38, 42>>)}

\* this.client.get(url): it throws (transport error, timeout, a status
\* that is not 2xx) or resolves with a body
Responses(method) ==
    {[kind |-> "throw", payload |-> JsUndefined]}
    \cup {[kind |-> "ok", payload |-> p] : p \in Payloads(method)}

NoResponse == [kind |-> "none", payload |-> JsUndefined]

\* pool.project of a listed pool
ProjectOf(pool) == IF pool < 40 THEN "aave" ELSE "yearn"

\* response.data.data.filter(pool => pool.project === protocolId)
FilterPools(pools, protocolId) ==
    LET Mine(pool) == ProjectOf(pool) = protocolId
    IN  SelectSeq(pools, Mine)

\* the condition under which a fetch keeps the response (lines 309, 342,
\* 375, 413, 446)
Accepts(method, payload) ==
    IF method \in {"info", "tvl", "pool"} THEN JsTruthy(payload)
    ELSE payload.t = "list"

\* the value a fetch stores and returns for a response it keeps
Kept(method, id, payload) ==
    IF method = "yields" THEN JsList(FilterPools(payload.items, id))
    ELSE payload

\* what a fetch returns when it keeps nothing: null, or [] for the lists
Nothing(method) ==
    IF method \in {"yields", "protocols"} THEN JsList(<<>>) ELSE JsNull

\* config.protocols[protocolId]?.cache?.ttl: 1800 s for aave
ProtocolTtl(protocolId) == IF protocolId = "aave" THEN 1 ELSE UNDEF

\* the ttl a fetch passes to set: per protocol or the default, 1800 s for a
\* pool's APR, 86400 s for the list of protocols
TtlOf(method, id) ==
    IF method = "pool" THEN 1
    ELSE IF method = "protocols" THEN 48
    ELSE Or(ProtocolTtl(id), cacheTtl)

NoFetch ==
    [pc |-> "idle", n |-> 0, method |-> "", id |-> "", key |-> "",
     cached |-> JsNull,
     http |-> FALSE, response |-> NoResponse, setCalled |-> FALSE,
     setKey |-> "", setValue |-> JsNull, value |-> JsNull]

LlamaIdle == fetch = NoFetch

\* A fetch is called and cacheService.get(cacheKey) answers.  A truthy
\* answer is returned; otherwise the HTTP request is sent.
LlamaLookup(method, id) ==
    /\ fetch.pc \in {"idle", "returned"}
    /\ fetch.n < MaxFetches
    /\ Get(CacheKeyOf(method, id))
    /\ LET cached == lastOp'.result
       IN  fetch' = [NoFetch EXCEPT
                        !.pc = IF JsTruthy(cached) THEN "returned" ELSE "waiting",
                        !.n = fetch.n + 1,
                        !.method = method, !.id = id,
                        !.key = CacheKeyOf(method, id),
                        !.cached = cached,
                        !.http = ~JsTruthy(cached),
                        !.value = IF JsTruthy(cached) THEN cached ELSE JsNull]

\* The request fails, or its body is not kept: the catch block or the last
\* line of the try block returns
LlamaNothing(response) ==
    /\ fetch.pc = "waiting"
    /\ response \in Responses(fetch.method)
    /\ response.kind = "throw" \/ ~Accepts(fetch.method, response.payload)
    /\ fetch' = [fetch EXCEPT !.pc = "returned", !.response = response,
                              !.value = Nothing(fetch.method)]
    /\ UNCHANGED <<ovars, svars, cvars, pvars>>

\* The body is kept: cacheService.set(cacheKey, value, ttl) is awaited and
\* the value returned
LlamaKeep(response) ==
    /\ fetch.pc = "waiting"
    /\ response \in Responses(fetch.method)
    /\ response.kind = "ok" /\ Accepts(fetch.method, response.payload)
    /\ LET value == Kept(fetch.method, fetch.id, response.payload)
       IN  /\ Set(fetch.key, value, TtlOf(fetch.method, fetch.id))
           /\ fetch' = [fetch EXCEPT !.pc = "returned", !.response = response,
                                     !.setCalled = TRUE, !.setKey = fetch.key,
                                     !.setValue = value, !.value = value]

Lookup  == \E call \in Calls : LlamaLookup(call[1], call[2])
NoneKept == \E m \in Methods : \E r \in Responses(m) : LlamaNothing(r)
Keep    == \E m \in Methods : \E r \in Responses(m) : LlamaKeep(r)

\* the service is used with a cache that is initialised once
FirstInit == client = 0 /\ InitCall

LlamaNext ==
    \/ FirstInit
    \/ Ready
    \/ Error
    \/ End
    \/ Tick
    \/ Lookup
    \/ NoneKept
    \/ Keep

-----------------------------------------------------------------------------
(* The Aave plugin's getProtocolData (plugins/protocol-aave/index.js,      *)
(* lines 27-226), one call step by step.  AavePlugin above is its summary. *)

\* The Graph: "throw" (axios rejects: transport error or a status that is
\* not 2xx), "errors" (a body with GraphQL errors), "nodata" (a body without
\* data), "noreserves" (data without reserves), "notlist" (reserves is not a
\* list: forEach throws), "reserves" (a list of reserves; supply and borrow
\* are liquidityRate / 1e25 and variableBorrowRate / 1e25 per symbol)
AaveGraphFailures == {"throw", "errors", "nodata", "noreserves", "notlist"}

AaveGraphAnswers ==
    {[kind |-> k, supply |-> NoRates, borrow |-> NoRates] :
        k \in AaveGraphFailures}
    \cup {[kind |-> "reserves", supply |-> g.supply, borrow |-> g.borrow] :
             g \in {AaveGraphRates, AaveGraphEmpty}}

\* https://yields.llama.fi/pools: "throw" (axios rejects), "nodata" (a body
\* without data), "notlist" (data is not a list: filter throws), "pools" (a
\* list; supply and borrow are apyBase and apyBaseBorrow of the aave-v3
\* pools on Ethereum, per symbol)
AaveLlamaFailures == {"throw", "nodata", "notlist"}

AaveLlamaAnswers ==
    {[kind |-> k] @@ AavePoolsNone : k \in AaveLlamaFailures}
    \cup {[kind |-> "pools"] @@ p :
             p \in {AavePoolsNone, AavePoolsSome, AavePoolsCheap,
                    AavePoolsNoBorrow}}

NotSettled == [kind |-> "pending"]

\* the promise fulfilled with the object returned
AaveFulfilled(supply, borrow, source) ==
    [kind |-> "fulfilled", supplyRates |-> supply, borrowRates |-> borrow,
     source |-> source]

AaveIdle ==
    /\ apc = "idle"
    /\ aenv = [kind |-> "none"]
    /\ acalls = <<>>
    /\ aresult = NotSettled

AaveInit ==
    /\ apc = "start"
    /\ aenv \in [graph : AaveGraphAnswers, pools : AaveLlamaAnswers]
    /\ acalls = <<>>
    /\ aresult = NotSettled

(* Lines 27-64: the query is sent to The Graph *)
AaveStart ==
    /\ apc = "start"
    /\ acalls' = Append(acalls, "thegraph")
    /\ apc' = "awaitGraph"
    /\ UNCHANGED <<aenv, aresult>>
    /\ UNCHANGED <<ovars, svars, cvars, lvars>>

(* Lines 64-128: the answer of The Graph.  A list of reserves is returned  *)
(* as 'thegraph-aave-v3'; everything else throws inside the try and the    *)
(* catch block sends the request to DefiLlama.                             *)
AaveGraphSettled ==
    /\ apc = "awaitGraph"
    /\ IF aenv.graph.kind = "reserves"
       THEN /\ aresult' = AaveFulfilled(aenv.graph.supply, aenv.graph.borrow,
                                        "thegraph-aave-v3")
            /\ apc' = "done"
            /\ UNCHANGED acalls
       ELSE /\ acalls' = Append(acalls, "defillama")
            /\ apc' = "awaitLlama"
            /\ UNCHANGED aresult
    /\ UNCHANGED aenv
    /\ UNCHANGED <<ovars, svars, cvars, lvars>>

\* the fallback without its inner try: a throw of pools.filter rejects
AaveFallbackUncaught ==
    /\ apc = "awaitLlama"
    /\ aresult' =
          IF aenv.pools.kind = "pools"
          THEN AaveFulfilled(AaveLlamaRates(aenv.pools.supply),
                             AaveLlamaRates(aenv.pools.borrow),
                             "defillama-api-fallback")
          ELSE IF aenv.pools.kind = "notlist"
          THEN [kind |-> "rejected"]
          ELSE AaveFulfilled(AaveMockSupply, AaveMockBorrow,
                             "mock-data-fallback")
    /\ apc' = "done"
    /\ UNCHANGED <<aenv, acalls>>
    /\ UNCHANGED <<ovars, svars, cvars, lvars>>
(* Lines 128-226: the answer of DefiLlama.  A list of pools is returned as *)
(* 'defillama-api-fallback'; a body without data falls through, a throw    *)
(* is caught at line 176, and the mock data are returned.                  *)
AaveFallbackSettled ==
    /\ apc = "awaitLlama"
    /\ aresult' =
          IF aenv.pools.kind = "pools"
          THEN AaveFulfilled(AaveLlamaRates(aenv.pools.supply),
                             AaveLlamaRates(aenv.pools.borrow),
                             "defillama-api-fallback")
          ELSE AaveFulfilled(AaveMockSupply, AaveMockBorrow,
                             "mock-data-fallback")
    /\ apc' = "done"
    /\ UNCHANGED <<aenv, acalls>>
    /\ UNCHANGED <<ovars, svars, cvars, lvars>>

AaveNext ==
    \/ AaveStart
    \/ AaveGraphSettled
    \/ AaveFallbackSettled

-----------------------------------------------------------------------------
(* Specifications *)

Init == OrchInit /\ StratIdle /\ CacheIdle /\ LlamaIdle /\ AaveIdle

Next == OrchNext

Spec == Init /\ [][Next]_vars

InitStrategy == OrchInit /\ StratInit /\ CacheIdle /\ LlamaIdle /\ AaveIdle

SpecStrategy == InitStrategy /\ [][StratNext]_vars

InitYield == OrchInit /\ YieldInit /\ CacheIdle /\ LlamaIdle /\ AaveIdle

SpecYield == InitYield /\ [][YieldNext]_vars

InitCache == OrchInit /\ StratIdle /\ CacheInit /\ LlamaIdle /\ AaveIdle

SpecCache == InitCache /\ [][CacheNext]_vars

SpecLlama == InitCache /\ [][LlamaNext]_vars

InitAave ==
    /\ OrchInit /\ StratIdle /\ CacheIdle /\ LlamaIdle /\ AaveInit

SpecAave == InitAave /\ [][AaveNext]_vars

-----------------------------------------------------------------------------
(* Claims about getProtocolData *)

Returned == pc = "done"
ReturnedSnapshot == pc = "done" /\ result.kind = "snapshot"

\* a provider of the metric was asked and answered with a value
LidoAvailable ==
    \/ world.lido.ok /\ world.lido.apr # NULL
    \/ world.pools.kind = "pools" /\ world.pools.lido # NULL
RenzoAvailable ==
    \/ world.renzo.apyBoost # NULL
    \/ world.pools.kind = "pools" /\ world.pools.renzo # NULL
KelpAvailable == world.pools.kind = "pools" /\ world.pools.kelp # NULL
EigenAvailable == world.pools.kind = "pools" /\ world.pools.eigen # NULL
AaveAvailable == KeyCount(world.aave.supplyRates) > 0
GasAvailable ==
    \/ world.gas.bn = "ok"
    \/ world.gas.bn = "throw" /\ world.gas.es = "ok"

\* C1: whatever the providers answer, getProtocolData resolves, and the
\* object it resolves with holds the value of every metric of which a
\* provider succeeded.
C1_EveryAvailableValueReturned ==
    Returned =>
        /\ result.kind \in {"snapshot", "error"}
        /\ LidoAvailable =>
              result.kind = "snapshot" /\ result.lido.stETHAPR # NULL
        /\ AaveAvailable =>
              result.kind = "snapshot" /\ KeyCount(result.aave.supplyRates) > 0
        /\ RenzoAvailable =>
              result.kind = "snapshot" /\ result.renzo.apyBoost # NULL
        /\ KelpAvailable =>
              result.kind = "snapshot" /\ result.kelp.apyBoost # NULL
        /\ EigenAvailable =>
              result.kind = "snapshot" /\ result.eigenLayer.baseAPR # NULL
        /\ GasAvailable =>
              result.kind = "snapshot" /\ result.gas.current.average # NULL

\* the plugin of p resolved and supplied the rate of p
PluginSupplied(p) ==
    /\ plug[p] = "fulfilled"
    /\ \/ p = "lido" /\ Truthy(lidoData.stETHAPR)
       \/ p = "aave" /\ KeyCount(aaveData.supplyRates) > 0
       \/ p = "renzo" /\ Truthy(renzoDataFromPlugin.apyBoost)

\* C2: in a pass in which the plugin of a protocol succeeds, the DefiLlama
\* pools are never searched for that protocol's rate.
C2_NoAggregatorAfterPluginSuccess ==
    ReturnedSnapshot => \A p \in Plugins : PluginSupplied(p) => p \notin llamaLookup

Absent(v) == v = NULL \/ v = UNDEF

\* C3: in a returned snapshot the dataSources entry of a protocol is
\* 'No Data Available' exactly when its rate is null or empty.
C3_NoDataIffNull ==
    ReturnedSnapshot =>
        LET d == result.dataSources IN
        /\ (d.lido = NoDataAvailable) <=> Absent(result.lido.stETHAPR)
        /\ (d.aave = NoDataAvailable) <=> (KeyCount(result.aave.supplyRates) = 0)
        /\ (d.renzo = NoDataAvailable) <=> Absent(result.renzo.apyBoost)
        /\ (d.eigenLayer = NoDataAvailable) <=> Absent(result.eigenLayer.baseAPR)
        /\ (d.kelp = NoDataAvailable) <=> Absent(result.kelp.apyBoost)
        /\ (d.gas = NoDataAvailable) <=> Absent(result.gas.current.average)

\* the missingData keys that speak of a metric
LidoKeys == {"lidoPlugin", "lidoStEthApr", "yieldPools"}
RenzoKeys == {"renzoPlugin", "renzoApyBoost", "yieldPools"}
KelpKeys == {"kelpApyBoost", "yieldPools"}
EigenKeys == {"eigenLayerBaseApr", "yieldPools"}
GasKeys == {"gasData"}
AaveKeys(key) == {key, "aavePlugin", "yieldPools"}

\* C4: every metric that is null in a returned snapshot has an entry in
\* its missingData.
C4_NullHasMissingEntry ==
    ReturnedSnapshot =>
        LET m == result.missingData IN
        /\ Absent(result.lido.stETHAPR) => m \cap LidoKeys # {}
        /\ Absent(result.renzo.apyBoost) => m \cap RenzoKeys # {}
        /\ Absent(result.kelp.apyBoost) => m \cap KelpKeys # {}
        /\ Absent(result.eigenLayer.baseAPR) => m \cap EigenKeys # {}
        /\ Absent(result.gas.current.average) => m \cap GasKeys # {}
        /\ \A s \in Symbols :
              /\ result.aave.supplyRates[s] = NULL
                    => m \cap AaveKeys(AaveSupplyKey(s)) # {}
              /\ result.aave.borrowRates[s] = NULL
                    => m \cap AaveKeys(AaveBorrowKey(s)) # {}

\* C6: whenever getProtocolData has returned, the three plugin promises
\* have settled.
C6_ReturnOnlyAfterPluginsSettled ==
    Returned => \A p \in Plugins : plug[p] # "pending"

\* C7: when Blocknative fails (here: a transport error, or an error body
\* without block prices) and Etherscan answers with gas prices, the Etherscan
\* request is made and the snapshot carries the Etherscan prices.
C7_EtherscanAfterAnyBlocknativeFailure ==
    (ReturnedSnapshot /\ world.gas.bn \in {"throw", "errbody"}
                      /\ world.gas.es = "ok") =>
        /\ gasFetch.es.status = "fulfilled"
        /\ result.gas.current = GasStep(NotFetched, gasFetch.es).gasCurrent
        /\ result.dataSources.gas = "Etherscan"

-----------------------------------------------------------------------------
(* Claims about strategyBuilder and calculateYield *)

Built == spc \in {"built", "done"} /\ built.kind = "strategy"

Finished == spc = "done" /\ final.kind = "strategy"

\* some rate of the table is a number
HasRate(table) == \E s \in Symbols : ~Absent(table[s])

LiveLido == IsSnapshot(sin.data) /\ ~Absent(sin.data.lido.stETHAPR)
LiveAaveSupply ==
    /\ IsSnapshot(sin.data)
    /\ sin.data.aave.source # "mock-data-fallback"
    /\ HasRate(sin.data.aave.supplyRates)
LiveAaveBorrow ==
    /\ IsSnapshot(sin.data)
    /\ sin.data.aave.source # "mock-data-fallback"
    /\ HasRate(sin.data.aave.borrowRates)
LiveRenzo == IsSnapshot(sin.data) /\ ~Absent(sin.data.renzo.apyBoost)
LiveKelp  == IsSnapshot(sin.data) /\ ~Absent(sin.data.kelp.apyBoost)
LiveGas   == IsSnapshot(sin.data) /\ ~Absent(sin.data.gas.current.average)

\* C5: in the result of strategyBuilder an entry of dataSources is 'Real
\* Data' only when the snapshot holds a live, non-null value for it: a null,
\* missing or defaulted value, and a rate of the Aave plugin's mock data, is
\* reported as 'No Data Available'.
C5_RealDataOnlyWhenLive ==
    Built =>
        /\ built.dataSources.lidoAPR = RealData => LiveLido
        /\ built.dataSources.aaveSupplyRates = RealData => LiveAaveSupply
        /\ built.dataSources.aaveBorrowRates = RealData => LiveAaveBorrow
        /\ built.dataSources.renzoBoost = RealData => LiveRenzo
        /\ built.dataSources.kelpBoost = RealData => LiveKelp
        /\ built.dataSources.gasEstimate = RealData => LiveGas

\* neither provider gave a gas price
GasUnavailable(g) ==
    /\ g.bn \in {"throw", "errbody"}
    /\ g.es \in {"throw", "noresult", "errresult"}

\* C8: when neither Blocknative nor Etherscan gave a gas price, the gas
\* estimate of the final strategy result does not come from a null or zero
\* gas price (it is the positive estimate the static fallback gives) and the
\* result carries a missing-data warning for gas.
C8_GasFallbackAndWarning ==
    (Finished /\ GasUnavailable(final.gasAnswers)) =>
        /\ final.gasEstimateEth > 0
        /\ Includes(final.warnings, "gas data unavailable")

-----------------------------------------------------------------------------
(* Claims about CacheService *)

CacheOps == {"get", "set", "delete", "clearByPrefix"}

\* the operation that just returned gave the absent / failed result
GaveAbsent ==
    \/ lastOp.op = "get" /\ lastOp.result = JsNull
    \/ lastOp.op \in {"set", "delete"} /\ lastOp.result = FALSE
    \/ lastOp.op = "clearByPrefix" /\ lastOp.result = 0

\* C9: while the cache is disabled, was never initialised, or the
\* connection of its client is down (after 'error' or 'end', a failed init,
\* or close), get returns null, set and delete return false, clearByPrefix
\* returns 0, none of them throws and none calls the Redis client; and a
\* client call that throws gives the same absent / failed result.
C9_DownMeansAbsentWithoutClientCall ==
    lastOp.op \in CacheOps =>
        /\ Down => (GaveAbsent /\ ~lastOp.called /\ ~lastOp.threw)
        /\ lastOp.clientThrew => (GaveAbsent /\ ~lastOp.threw)

\* a get that the server answered
GetServed == lastOp.op = "get" /\ lastOp.called /\ ~lastOp.clientThrew

\* C10 as stated: after a successful set(key, v, ttl), with no later set or
\* delete of the key, a get the server answers returns v before the TTL is
\* up and null from then on (written holds the last successful set, so a
\* later set replaces v and restarts the TTL).
C10_RoundTripAnyValue ==
    (GetServed /\ lastOp.key \in DOMAIN written) =>
        IF now < written[lastOp.key].exp
        THEN lastOp.result = written[lastOp.key].value
        ELSE lastOp.result = JsNull

\* C10, amended: the same for every value v that JSON can denote
C10_RoundTripJsonValue ==
    (GetServed /\ lastOp.key \in DOMAIN written) =>
        IF now < written[lastOp.key].exp
        THEN written[lastOp.key].value \in JsonValues
                => lastOp.result = written[lastOp.key].value
        ELSE lastOp.result = JsNull

\* a get returns, after time has passed, the list a set stored
C10_Witness ==
    /\ GetServed
    /\ lastOp.key \in DOMAIN written
    /\ now > 0
    /\ now < written[lastOp.key].exp
    /\ written[lastOp.key].value = JsList(<<38, 42>>)
    /\ lastOp.result = JsList(<<38, 42>>)

-----------------------------------------------------------------------------
(* Claims about DefiLlamaService *)

FetchReturned == fetch.pc = "returned"

\* cacheService.get gave a value
CacheHit == fetch.cached # JsNull

\* the request succeeded and the body holds the part the fetch reads: any
\* value for info, tvl and pool, a list for yields and protocols
SuccessfulResponse ==
    /\ fetch.response.kind = "ok"
    /\ IF fetch.method \in {"info", "tvl", "pool"}
       THEN fetch.response.payload.t \in {"number", "list"}
       ELSE fetch.response.payload.t = "list"

\* C11: a fetch that has returned looked the cache up first; on a hit it
\* returned the cached value and sent no HTTP request; on a miss with a
\* successful response it wrote the value it returns to the cache under the
\* key it looked up; on a failed or empty response it wrote nothing and
\* returned null or an empty list.
C11_CacheFirstThenWrite ==
    FetchReturned =>
        /\ CacheHit => (fetch.value = fetch.cached /\ ~fetch.http)
        /\ (~CacheHit /\ SuccessfulResponse) =>
              /\ fetch.http
              /\ fetch.setCalled
              /\ fetch.setKey = fetch.key
              /\ fetch.setValue = fetch.value
              /\ fetch.value =
                    Kept(fetch.method, fetch.id, fetch.response.payload)
        /\ (~CacheHit /\ ~SuccessfulResponse) =>
              /\ ~fetch.setCalled
              /\ fetch.value \in {JsNull, JsList(<<>>)}

-----------------------------------------------------------------------------
(* Claims about the route and the rates of a strategy result *)

\* C12: the proposedRoute of a strategy result, of strategyBuilder and of
\* the pipeline of analyzeStrategy, is non-empty and starts with the user's
\* input asset, whatever the asset, the risk tolerance and the snapshot.
C12_RouteStartsWithInputAsset ==
    /\ Built =>
          /\ Len(built.proposedRoute) > 0
          /\ built.proposedRoute[1] = sin.user.inputAsset
    /\ Finished =>
          /\ Len(final.proposedRoute) > 0
          /\ final.proposedRoute[1] = sin.user.inputAsset

\* the asset and the risk tier strategyBuilder works with (lines 14-15)
AssetOf(user) == user.inputAsset
TierOf(user) == IF user.riskTolerance = "" THEN "medium" ELSE user.riskTolerance

\* C13: when the enriched route of a tier is shorter than the tier's
\* minimum, the route emitted is the route the next-lower tier builds from
\* the same snapshot: high gives the medium route, medium the low route,
\* for ETH and for USDC.
C13_FallbackToNextLowerTier ==
    Built =>
        LET d == sin.data
            a == AssetOf(sin.user)
            t == TierOf(sin.user)
            route == built.proposedRoute
        IN  /\ (a = "ETH" /\ t = "high" /\ Len(EnrichedHighETH(d)) <= 2)
                  => route = buildMediumRiskETHRoute(d)
            /\ (a = "ETH" /\ t = "medium" /\ Len(EnrichedMediumETH(d)) <= 1)
                  => route = buildLowRiskETHRoute(d)
            /\ (a = "USDC" /\ t = "high" /\ Len(EnrichedHighUSDC(d)) <= 3)
                  => route = buildMediumRiskUSDCRoute(d)
            /\ (a = "USDC" /\ t = "medium" /\ Len(EnrichedMediumUSDC(d)) <= 2)
                  => route = buildLowRiskUSDCRoute(d)

\* a rate that is a number and at least the threshold
AtLeast(rate, threshold) ==
    rate # UNDEF /\ rate # NULL /\ rate >= threshold

\* C14: for ETH at medium risk with a staking rate of 3.8: when stETH
\* earns on Aave and USDC borrows below 3%, the route has the collateral
\* and borrow steps; when USDC borrows at 3% or more, neither the
\* collateral step nor the borrow steps are in the route and the route is
\* the low-risk route.
C14_MediumETHBorrowThreshold ==
    (/\ Built
     /\ AssetOf(sin.user) = "ETH"
     /\ TierOf(sin.user) = "medium"
     /\ lidoDataOf(sin.data).stETHAPR = 380) =>
        LET aave == aaveDataOf(sin.data)
            route == built.proposedRoute
        IN  /\ (Gt(aave.supplyRates["stETH"], 0)
                  /\ Lt(aave.borrowRates["USDC"], 300))
                 => /\ Includes(route, "Aave")
                    /\ Includes(route, "borrow USDC")
                    /\ Includes(route, "swap to ETH")
            /\ AtLeast(aave.borrowRates["USDC"], 300)
                 => /\ ~Includes(route, "Aave")
                    /\ ~Includes(route, "borrow USDC")
                    /\ ~Includes(route, "swap to ETH")
                    /\ route = buildLowRiskETHRoute(sin.data)

\* no source but Lido has data in the snapshot
OnlyLido(d) ==
    /\ KeyCount(aaveDataOf(d).supplyRates) = 0
    /\ KeyCount(aaveDataOf(d).borrowRates) = 0
    /\ ~Truthy(renzoDataOf(d).apyBoost)
    /\ ~Truthy(kelpDataOf(d).apyBoost)

\* C15: for ETH at low risk with a staking rate of 3.8, a Lido fee of 0.1
\* and no other source, the result has the route ETH, stETH, a net rate of
\* 3.7% and a risk score of 2.0.
C15_LowETHResult ==
    (/\ Built
     /\ AssetOf(sin.user) = "ETH"
     /\ TierOf(sin.user) = "low"
     /\ lidoDataOf(sin.data).stETHAPR = 380
     /\ lidoDataOf(sin.data).fee = 10
     /\ OnlyLido(sin.data)) =>
        /\ built.proposedRoute = <<"ETH", "stETH">>
        /\ built.netYield = Num(37)
        /\ built.riskScore = 20

\* the snapshot with one of its rates taken out
WithoutRenzo(d) ==
    IF IsSnapshot(d) THEN [d EXCEPT !.renzo.apyBoost = 0] ELSE d
WithoutKelp(d) ==
    IF IsSnapshot(d) THEN [d EXCEPT !.kelp.apyBoost = 0] ELSE d
WithoutBorrow(d, symbol) ==
    IF IsSnapshot(d) THEN [d EXCEPT !.aave.borrowRates[symbol] = 0] ELSE d

\* the rates of the result strategyBuilder computes from a snapshot
GrossOf(d) ==
    toFixed(Branch(AssetOf(sin.user), TierOf(sin.user), d).gross, 1000)
NetOf(d) ==
    toFixed(Branch(AssetOf(sin.user), TierOf(sin.user), d).net, 1000)

\* the part of the gross rate that is neither the staking rate nor a boost
LeverageOf(d) ==
    LET a == AssetOf(sin.user)
        t == TierOf(sin.user)
        gross == Branch(a, t, d).gross
        base  == Rate(Or(lidoDataOf(d).stETHAPR, 0))
        renzo == Rate(Or(renzoDataOf(d).apyBoost, 0))
        kelp  == Rate(Or(kelpDataOf(d).apyBoost, 0))
    IN  IF a = "ETH" /\ t = "high"
        THEN Minus(Minus(Minus(gross, base), renzo), kelp)
        ELSE IF (a = "ETH" /\ t = "medium") \/ (a = "USDC" /\ t = "high")
        THEN Minus(Minus(gross, base), renzo)
        ELSE Num(0)

\* C16: the gross and the net rate count only steps of the emitted route:
\* a restaking boost (Renzo, Kelp) or a leverage term is in the gross rate
\* only when the route has that step, and a borrow rate is taken off the net
\* rate only when the route has the matching borrow step.
C16_RatesCountOnlyRouteSteps ==
    Built =>
        LET d == sin.data
            route == built.proposedRoute
        IN  /\ ~Includes(route, "Renzo") => GrossOf(d) = GrossOf(WithoutRenzo(d))
            /\ ~Includes(route, "Kelp") => GrossOf(d) = GrossOf(WithoutKelp(d))
            /\ (~Includes(route, "borrow USDC") /\ ~Includes(route, "borrow ETH"))
                  => LeverageOf(d) = Num(0)
            /\ ~Includes(route, "borrow USDC")
                  => NetOf(d) = NetOf(WithoutBorrow(d, "USDC"))
            /\ ~Includes(route, "borrow ETH")
                  => NetOf(d) = NetOf(WithoutBorrow(d, "ETH"))

\* the score strategyBuilder gives an asset and a tier when the pass
\* returned no data, and the score of mockAIStrategy's table for them
ScoreOfBuilder(user) ==
    Branch(AssetOf(user), TierOf(user), ErrorResult).riskScore
ScoreOfTable(user) ==
    mockAIStrategy([inputAsset |-> user.inputAsset,
                    riskTolerance |-> TierOf(user), amount |-> 1,
                    timeHorizonDays |-> UNDEF,
                    gasLimitEth |-> UNDEF]).riskScore

PassOfYield == YieldPass(final.gasAnswers)
GasWarned == Includes(final.warnings, "gas estimate exceeds limit")
HasProjectedCost == IsSnapshot(PassOfYield)
ProjectedCost ==
    LET price == PassOfYield.gas.current.average
        count == Cardinality({i \in 1..Len(final.proposedRoute) :
                                 final.proposedRoute[i] \in TxSteps})
    IN  (200000 * (IF price = NULL THEN 0 ELSE price)
                * (IF count < 1 THEN 1 ELSE count)) \div 100000

\* C18: calculateYield adds a gas warning to the warnings of the result
\* exactly when the projected gas cost is strictly greater than the user's
\* gasLimitEth; a cost that does not exceed the limit adds no warning.
C18_GasWarningIffCostExceedsLimit ==
    Finished =>
        (GasWarned <=>
            /\ HasProjectedCost
            /\ sin.user.gasLimitEth # UNDEF
            /\ ProjectedCost > sin.user.gasLimitEth)

\* a result of three transactions whose projected cost is above the limit
\* of 0.0128 ETH carries the warning
C18_Witness ==
    /\ Finished
    /\ HasProjectedCost
    /\ sin.user.gasLimitEth = 128
    /\ ProjectedCost > 128
    /\ GasWarned

\* the gas estimate strategyBuilder scales by the amount (line 121), for
\* the amount the user gave
ScaledGas(d, amount) ==
    RoundDiv(Branch(AssetOf(sin.user), TierOf(sin.user), d).gas * amount, 2)

\* C19: a request with amount 0 gets a route that is not empty and an
\* absolute return of exactly zero; every quantity computed from the
\* amount, the scaling of the gas estimate included, uses 0 and no default
\* in its place; no step raises an error.
C19_AmountZero ==
    (spc \in {"built", "done"} /\ sin.user.amount = 0) =>
        /\ built.kind # "throw"
        /\ final.kind # "throw"
        /\ Built =>
              /\ Len(built.proposedRoute) > 0
              /\ built.gasEstimateEth = ScaledGas(sin.data, 0)
        /\ (Finished /\ final.period.set) =>
              /\ Len(final.proposedRoute) > 0
              /\ final.period.absolute = Num(0)

\* a finished analyzeStrategy request
Analyzed == Finished /\ final.origin = "mockAIStrategy"

\* what calculateYield gives when it reads the snapshot of the request
YieldOfRequestSnapshot ==
    calculateYield(mockAIStrategy(sin.user), sin.user, sin.data)

\* C20: an analyzeStrategy request makes one pass of getProtocolData, and
\* the stages after it (yield and gas calculation, insights) read the
\* snapshot of that pass: the providers' answers calculateYield worked
\* from are those of the request's pass, and so are the gas estimate and
\* the warnings of the result.
C20_OnePassPerRequest ==
    Analyzed =>
        /\ final.gasAnswers = sin.gasAnswers
        /\ final.gasEstimateEth = YieldOfRequestSnapshot.gasEstimateEth
        /\ final.warnings = YieldOfRequestSnapshot.warnings

-----------------------------------------------------------------------------
(* Claims about calculateYield, analyzeStrategy and the plugins *)

\* a call of calculateYield returned: it received built (first call) or
\* the earlier result final (second call)
YieldCalled == spc = "built" /\ spc' = "done" /\ final'.kind = "strategy"
YieldCalledAgain == spc = "done" /\ spc' = "again"

\* C21: calculateYield leaves the strategy object it receives unchanged,
\* its proposedRoute and a warnings list it already has included; what it
\* adds is in the returned object only.
C21_ArgumentUnchanged ==
    [][/\ YieldCalled => built' = built
       /\ YieldCalledAgain => built' = final]_vars

\* analyzeStrategy returned or rejected (it never calls strategyBuilder)
AnalyzeEnded == spc = "done" /\ built = NoStrategy

\* both passes of the request ended in the catch of getProtocolData
BothPassesFailed ==
    /\ ~IsSnapshot(sin.data)
    /\ ~IsSnapshot(YieldPass(final.gasAnswers))

RouteOf(asset, tier, d) ==
    IF asset = "ETH"
    THEN IF tier = "low" THEN buildLowRiskETHRoute(d)
         ELSE IF tier = "medium" THEN buildMediumRiskETHRoute(d)
         ELSE IF tier = "high" THEN buildHighRiskETHRoute(d)
         ELSE <<>>
    ELSE IF asset = "USDC"
    THEN IF tier = "low" THEN buildLowRiskUSDCRoute(d)
         ELSE IF tier = "medium" THEN buildMediumRiskUSDCRoute(d)
         ELSE IF tier = "high" THEN buildHighRiskUSDCRoute(d)
         ELSE <<>>
    ELSE buildDefaultRoute(d)

PoolMetricKeys ==
    {"lidoStEthApr", "eigenLayerBaseApr", "renzoApyBoost", "kelpApyBoost"}
    \cup {AaveSupplyKey(s) : s \in Symbols}
    \cup {AaveBorrowKey(s) : s \in Symbols}

\* what the search of the pools gives in the order in which every plugin
\* fetch completed before the DefiLlama and gas fetches
PluginsFirst == PoolStep(lidoData, aaveData, renzoDataFromPlugin)

\* C24: for fixed provider outcomes the returned object is the same in
\* every order in which the plugin fetches complete relative to the
\* DefiLlama and gas fetches: its missingData and its provenance are those of
\* the order in which the plugins completed first, so a plugin that succeeds
\* late leaves no missingData entry and no DefiLlama provenance for its
\* metric.
C24_SameResultInEveryOrder ==
    ReturnedSnapshot =>
        /\ result.missingData =
              (result.missingData \ PoolMetricKeys) \cup PluginsFirst.miss
        /\ plug["lido"] = "fulfilled" =>
              /\ "lidoStEthApr" \notin result.missingData
              /\ result.dataSources.lido # "DefiLlama"
        /\ plug["aave"] = "fulfilled" =>
              \A s \in Symbols :
                 /\ AaveSupplyKey(s) \notin result.missingData
                 /\ AaveBorrowKey(s) \notin result.missingData
        /\ (plug["renzo"] = "fulfilled" /\ renzoDataFromPlugin.apyBoost # NULL)
              => "renzoApyBoost" \notin result.missingData

\* strategyBuilder was called and has ended
BuilderEnded == spc = "built"

\* C25: strategyBuilder returns one result for every (asset, risk tier,
\* snapshot) and never throws, also on the snapshots on which a medium- or
\* high-risk USDC route falls back to the low-risk route
\* <<"USDC", "Aave Supply">>.
C25_BuilderNeverThrows ==
    BuilderEnded =>
        /\ built.kind = "strategy"
        /\ (/\ AssetOf(sin.user) = "USDC"
            /\ TierOf(sin.user) \in {"medium", "high"}
            /\ RouteOf("USDC", TierOf(sin.user), sin.data)
                  = <<"USDC", "Aave Supply">>)
              => built.proposedRoute = <<"USDC", "Aave Supply">>

\* the Renzo plugin resolved without an APY boost while the DefiLlama yield
\* pools hold a Renzo pool with an APY
RenzoOnlyInPools ==
    /\ plug["renzo"] = "fulfilled"
    /\ renzoDataFromPlugin.apyBoost = NULL
    /\ world.pools.kind = "pools"
    /\ Truthy(world.pools.renzo)

\* C26: when the Renzo plugin succeeds without an APY boost and the
\* DefiLlama yield pools hold a Renzo pool with an APY, the returned
\* renzo.apyBoost is the DefiLlama value and dataSources.renzo names
\* DefiLlama.
C26_RenzoBoostFromPools ==
    (ReturnedSnapshot /\ RenzoOnlyInPools) =>
        /\ result.renzo.apyBoost = safeGet(world.pools.renzo)
        /\ result.dataSources.renzo = "DefiLlama (fallback)"

AaveReturned == apc = "done"

\* the attempt at The Graph, or at DefiLlama, did not give a result
GraphFailed == aenv.graph.kind \in AaveGraphFailures
FallbackFailed == aenv.pools.kind \in AaveLlamaFailures

\* C27: the Aave plugin's getProtocolData never rejects; it asks The Graph
\* first, DefiLlama only after the attempt at The Graph failed, and returns
\* the built-in mock data only after both failed; the source of its result
\* names the stage whose rates it holds.
C27_AaveStagesInOrder ==
    /\ apc # "start" => (Len(acalls) >= 1 /\ acalls[1] = "thegraph")
    /\ Includes(acalls, "defillama") =>
          /\ acalls = <<"thegraph", "defillama">>
          /\ GraphFailed
    /\ AaveReturned =>
          /\ aresult.kind = "fulfilled"
          /\ aresult.source \in {"thegraph-aave-v3", "defillama-api-fallback",
                                 "mock-data-fallback"}
          /\ aresult.source = "thegraph-aave-v3" =>
                /\ ~GraphFailed
                /\ acalls = <<"thegraph">>
                /\ aresult.supplyRates = aenv.graph.supply
                /\ aresult.borrowRates = aenv.graph.borrow
          /\ aresult.source = "defillama-api-fallback" =>
                /\ GraphFailed /\ ~FallbackFailed
                /\ aresult.supplyRates = AaveLlamaRates(aenv.pools.supply)
                /\ aresult.borrowRates = AaveLlamaRates(aenv.pools.borrow)
          /\ aresult.source = "mock-data-fallback" =>
                /\ GraphFailed /\ FallbackFailed
                /\ acalls = <<"thegraph", "defillama">>
                /\ aresult.supplyRates = AaveMockSupply
                /\ aresult.borrowRates = AaveMockBorrow

\* both attempts failed, one of them by a throw inside the handler, and the
\* mock data came back
C27_Witness ==
    /\ AaveReturned
    /\ aenv.graph.kind = "notlist"
    /\ aenv.pools.kind = "notlist"
    /\ acalls = <<"thegraph", "defillama">>
    /\ aresult.kind = "fulfilled"
    /\ aresult.source = "mock-data-fallback"

\* the rate is a number the snapshot resolved, below the limit
ResolvedBelow(rate, limit) == ~Absent(rate) /\ rate < limit

\* the USDC borrow limit of the tier, in hundredths of a percent (3 and 3.5)
BorrowLimitUSDC(tier) == IF tier = "high" THEN 350 ELSE 300

\* C28: a borrow rate that is unavailable (null or missing in the snapshot)
\* never enables a borrowing step: 'borrow USDC' or 'borrow ETH' is in a
\* route only when the Aave borrow rate of that asset is a resolved number
\* below the threshold of the tier (3, 3.5 or 4).
C28_BorrowOnlyOnResolvedRate ==
    Built =>
        LET rates == aaveDataOf(sin.data).borrowRates IN
        /\ Includes(built.proposedRoute, "borrow USDC") =>
              ResolvedBelow(rates["USDC"], BorrowLimitUSDC(TierOf(sin.user)))
        /\ Includes(built.proposedRoute, "borrow ETH") =>
              ResolvedBelow(rates["ETH"], 400)

\* close() has just returned
Closed == lastOp.op = "close"

\* C29: isConnected is true only if a client exists and the cache is
\* enabled, and only while the connection of the client held is ready
\* (after its 'ready' event and before its next 'error' or 'end' event or
\* close()); after close() returns isConnected is false.
C29_ConnectedOnlyWhileHeldClientReady ==
    /\ isConnected => (client # 0 /\ cacheEnabled)
    /\ isConnected => conn = "ready"
    /\ Closed => ~isConnected

\* a call of clearByPrefix has just returned; lastOp.key is its prefix
ClearReturned == lastOp.op = "clearByPrefix"
ClearServed == ClearReturned /\ lastOp.called /\ ~lastOp.clientThrew

\* C30: clearByPrefix(prefix) deletes only keys that start with the prefix
\* and leaves every other key and its value unchanged; the number it returns
\* is the number of keys it removed; when the call was served, no key that
\* starts with the prefix remains.
C30_ClearsExactlyThePrefix ==
    [][ClearReturned' =>
          LET prefix == lastOp'.key
              removed == DOMAIN store \ DOMAIN store'
          IN  /\ \A k \in removed : StartsWith(k, prefix)
              /\ DOMAIN store' \subseteq DOMAIN store
              /\ \A k \in DOMAIN store' : store'[k] = store[k]
              /\ lastOp'.result = Cardinality(removed)
              /\ ClearServed' =>
                    \A k \in DOMAIN store' : ~StartsWith(k, prefix)]_vars

=============================================================================
